---- MODULE Spec2Model ----
(***************************************************************************)
(* A model of the Astrolabe topology explorer: the Explorer page's derived  *)
(* state (filters, collapse visibility, edge simplification), the          *)
(* attachment engine, the GraphCanvas layout effect and the ELK-based       *)
(* layout with its grid fallback.                                           *)
(***************************************************************************)
EXTENDS Integers, Sequences, FiniteSets, TLC

VARIABLES
    resources,       \* Explorer: useState<K8sResource[]>
    edges,           \* Explorer: useState<K8sEdge[]>
    viewScope,       \* Explorer: useState<ViewScope>
    filters,         \* Explorer: useState<FilterState>
    expansionState,  \* Explorer: useState<ExpansionState>
    argResources,    \* a direct call of lib/attachments: its resources argument
    argEdges,        \* a direct call of lib/attachments: its edges argument
    returned,        \* a direct call: <<>> before it, <<function, value>> after it
    runs,            \* the pipeline runs made so far: their inputs and outputs
    issued,          \* GraphCanvas: number of layout requests issued so far
    latestInput,     \* GraphCanvas: initialNodes/initialEdges of the latest effect run
    pending,         \* GraphCanvas: applyLayout calls suspended at their await
    nodes,           \* GraphCanvas: useNodesState, the ids of the displayed nodes
    canvasEdges,     \* GraphCanvas: useEdgesState, the displayed edges
    committedBy,     \* GraphCanvas: the request whose setNodes call was the last one
    staleCommit,     \* GraphCanvas: a request committed after a later one was issued
    layoutNodes,     \* getLayoutedElements: the node list passed in
    layoutEdges,     \* getLayoutedElements: the edge list passed in
    laid,            \* getLayoutedElements: the children of what elk.layout resolved with
    layoutPc,        \* getLayoutedElements: "idle", "solving", "returned"
    layoutPath,      \* getLayoutedElements: which return statement was taken
    layoutResult     \* getLayoutedElements: the {nodes, edges} returned

vars == <<resources, edges, viewScope, filters, expansionState,
          argResources, argEdges, returned, runs,
          issued, latestInput, pending, nodes, canvasEdges, committedBy, staleCommit,
          layoutNodes, layoutEdges, laid, layoutPc, layoutPath, layoutResult>>

explorerVars == <<resources, edges, viewScope, filters, expansionState>>
callVars == <<argResources, argEdges, returned, runs>>
canvasVars == <<issued, latestInput, pending, nodes, canvasEdges, committedBy, staleCommit>>
layoutVars == <<layoutNodes, layoutEdges, laid, layoutPc, layoutPath, layoutResult>>

----------------------------------------------------------------------------
(* Sequence helpers standing for Array.prototype.find / flat / Set order.   *)

\* Index of the first element of s whose uid is u, 0 when there is none
\* (allResources.find(r => r.uid === u)).
findIndex(s, u) ==
    IF \E i \in 1..Len(s) : s[i].uid = u
    THEN CHOOSE i \in 1..Len(s) : s[i].uid = u /\ \A j \in 1..(i - 1) : s[j].uid # u
    ELSE 0

hasUid(s, u) == findIndex(s, u) # 0

findByUid(s, u) == s[findIndex(s, u)]

\* Concatenation of a sequence of sequences, in order (push(...items)).
flatten(ss) ==
    LET F[i \in 0..Len(ss)] == IF i = 0 THEN <<>> ELSE F[i - 1] \o ss[i]
    IN F[Len(ss)]

\* First occurrences, in order: the iteration order of a Set<string>.
insertionOrder(s) ==
    LET F[i \in 0..Len(s)] ==
            IF i = 0 THEN <<>>
            ELSE IF \E j \in 1..(i - 1) : s[j] = s[i] THEN F[i - 1]
                 ELSE Append(F[i - 1], s[i])
    IN F[Len(s)]

seqRange(s) == {s[i] : i \in 1..Len(s)}

uidsOf(s) == {s[i].uid : i \in 1..Len(s)}

\* How many positions of s hold the value e.
countOf(s, e) == Cardinality({i \in 1..Len(s) : s[i] = e})

----------------------------------------------------------------------------
(* lib/attachments: owner resolution, visibility, edge simplification.      *)

\* A variant whose list of collapsible kinds lacks ConfigMap.
isCollapsibleResourceShort(resource) ==
    resource.kind \in {"ReplicaSet", "Job", "Pod", "EndpointSlice",
                       "Secret", "ServiceAccount", "PersistentVolumeClaim",
                       "PersistentVolume", "StorageClass"}

isCollapsibleResource(resource) ==
    resource.kind \in {"ReplicaSet", "Job", "Pod", "EndpointSlice", "ConfigMap",
                       "Secret", "ServiceAccount", "PersistentVolumeClaim",
                       "PersistentVolume", "StorageClass"}

\* edges.filter(e => e.to === uid).map(e => allResources.find(...)).filter(Boolean)
sourcesOf(incomingEdges, allResources) ==
    LET found == SelectSeq(incomingEdges, LAMBDA e : hasUid(allResources, e.from))
    IN [i \in 1..Len(found) |-> findByUid(allResources, found[i].from)]

\* The order the doc comment of findHighestOwner gives: no CronJob, no Job.
priorityOfDocComment ==
    <<"Deployment", "StatefulSet", "DaemonSet", "Service", "ReplicaSet", "Pod">>

priority ==
    <<"Deployment", "StatefulSet", "DaemonSet", "CronJob",
      "Service", "Job", "ReplicaSet", "Pod">>

\* The candidate returned, as a sequence: <<>> is null.
findHighestOwner(candidates) ==
    LET hit(k) == \E i \in 1..Len(candidates) : candidates[i].kind = priority[k]
        first(k) == CHOOSE i \in 1..Len(candidates) :
                        /\ candidates[i].kind = priority[k]
                        /\ \A j \in 1..(i - 1) : candidates[j].kind # priority[k]
    IN IF \E k \in 1..Len(priority) : hit(k)
       THEN LET k == CHOOSE k \in 1..Len(priority) :
                         hit(k) /\ \A m \in 1..(k - 1) : ~hit(m)
            IN <<candidates[first(k)]>>
       ELSE IF Len(candidates) > 0 THEN <<candidates[1]>> ELSE <<>>

\* A variant that consults only the priority winner among the owners.
findAllOwnersWinnerOnly(resource, allResources, allEdges) ==
    findHighestOwner(
        sourcesOf(SelectSeq(allEdges, LAMBDA e : e.to = resource.uid), allResources))

findAllOwners(resource, allResources, allEdges) ==
    sourcesOf(SelectSeq(allEdges, LAMBDA e : e.to = resource.uid), allResources)

findOwner(resource, allResources, allEdges) ==
    LET incomingEdges == SelectSeq(allEdges, LAMBDA e : e.to = resource.uid)
    IN IF Len(incomingEdges) = 0 THEN <<>>
       ELSE findHighestOwner(sourcesOf(incomingEdges, allResources))

\* A variant that asks only whether the resource has an entry.
isExpandedAnyKind(state, uid, kind) ==
    uid \in DOMAIN state

\* expansionState.get(uid)?.has(kind)
isExpanded(state, uid, kind) ==
    uid \in DOMAIN state /\ kind \in state[uid]

\* A variant that keeps a resource while some owner has NOT expanded its kind.
keepsResourceInverted(resource, allResources, allEdges, state) ==
    IF ~isCollapsibleResource(resource) THEN TRUE
    ELSE LET owners == sourcesOf(SelectSeq(allEdges, LAMBDA e : e.to = resource.uid),
                                 allResources)
         IN IF Len(owners) = 0 THEN TRUE
            ELSE \E i \in 1..Len(owners) : ~isExpanded(state, owners[i].uid, resource.kind)

\* A variant without the early return for resources of the main flow.
keepsResourceOwnersOnly(resource, allResources, allEdges, state) ==
    LET owners == findAllOwners(resource, allResources, allEdges)
    IN IF Len(owners) = 0 THEN TRUE
       ELSE \E i \in 1..Len(owners) : isExpanded(state, owners[i].uid, resource.kind)

keepsResource(resource, allResources, allEdges, state) ==
    IF ~isCollapsibleResource(resource) THEN TRUE
    ELSE LET owners == findAllOwners(resource, allResources, allEdges)
         IN IF Len(owners) = 0 THEN TRUE
            ELSE \E i \in 1..Len(owners) : isExpanded(state, owners[i].uid, resource.kind)

filterVisibleResources(rs, allResources, allEdges, state) ==
    SelectSeq(rs, LAMBDA r : keepsResource(r, allResources, allEdges, state))

\* A variant whose fan-in collapse list lacks ServiceAccount.
simplifyTargetShortList(targetEdges, targetUid, rs) ==
    IF ~hasUid(rs, targetUid) THEN <<>>
    ELSE LET target == findByUid(rs, targetUid)
         IN IF target.kind \in {"ConfigMap", "Secret"}
            THEN LET highestSource == findHighestOwner(sourcesOf(targetEdges, rs))
                 IN IF Len(highestSource) = 0 THEN <<>>
                    ELSE LET kept == SelectSeq(targetEdges,
                                         LAMBDA e : e.from = highestSource[1].uid)
                         IN IF Len(kept) = 0 THEN <<>> ELSE <<kept[1]>>
            ELSE targetEdges

\* A variant that collapses the fan-in of PersistentVolumeClaim targets too.
simplifyTargetClaimsCollapsed(targetEdges, targetUid, rs) ==
    IF ~hasUid(rs, targetUid) THEN <<>>
    ELSE LET target == findByUid(rs, targetUid)
         IN IF target.kind \in {"ConfigMap", "Secret", "ServiceAccount",
                                "PersistentVolumeClaim"}
            THEN LET highestSource == findHighestOwner(sourcesOf(targetEdges, rs))
                 IN IF Len(highestSource) = 0 THEN <<>>
                    ELSE LET kept == SelectSeq(targetEdges,
                                         LAMBDA e : e.from = highestSource[1].uid)
                         IN IF Len(kept) = 0 THEN <<>> ELSE <<kept[1]>>
            ELSE targetEdges

\* A variant that keeps one edge per target whatever the target's kind.
simplifyTargetEveryKindCollapsed(targetEdges, targetUid, rs) ==
    IF ~hasUid(rs, targetUid) THEN <<>>
    ELSE LET highestSource == findHighestOwner(sourcesOf(targetEdges, rs))
         IN IF Len(highestSource) = 0 THEN <<>>
            ELSE LET kept == SelectSeq(targetEdges,
                                 LAMBDA e : e.from = highestSource[1].uid)
                 IN IF Len(kept) = 0 THEN <<>> ELSE <<kept[1]>>

\* A variant whose claim branch lacks the else: Pod edges are pushed and
\* then all the edges of the target.
simplifyTargetClaimsPushedTwice(targetEdges, targetUid, rs) ==
    IF ~hasUid(rs, targetUid) THEN <<>>
    ELSE LET target == findByUid(rs, targetUid)
         IN IF target.kind \in {"ConfigMap", "Secret", "ServiceAccount"}
            THEN LET highestSource == findHighestOwner(sourcesOf(targetEdges, rs))
                 IN IF Len(highestSource) = 0 THEN <<>>
                    ELSE LET kept == SelectSeq(targetEdges,
                                         LAMBDA e : e.from = highestSource[1].uid)
                         IN IF Len(kept) = 0 THEN <<>> ELSE <<kept[1]>>
            ELSE IF target.kind = "PersistentVolumeClaim"
            THEN SelectSeq(targetEdges,
                     LAMBDA e : /\ hasUid(rs, e.from)
                                /\ findByUid(rs, e.from).kind = "Pod") \o targetEdges
            ELSE targetEdges

\* The edges simplifyEdges keeps for one target (one edgesByTarget entry).
simplifyTarget(targetEdges, targetUid, rs) ==
    IF ~hasUid(rs, targetUid) THEN <<>>
    ELSE LET target == findByUid(rs, targetUid)
         IN IF target.kind \in {"ConfigMap", "Secret", "ServiceAccount"}
            THEN LET highestSource == findHighestOwner(sourcesOf(targetEdges, rs))
                 IN IF Len(highestSource) = 0 THEN <<>>
                    ELSE LET kept == SelectSeq(targetEdges,
                                         LAMBDA e : e.from = highestSource[1].uid)
                         IN IF Len(kept) = 0 THEN <<>> ELSE <<kept[1]>>
            ELSE IF target.kind = "PersistentVolumeClaim"
            THEN LET podEdges ==
                         SelectSeq(targetEdges,
                             LAMBDA e : /\ hasUid(rs, e.from)
                                        /\ findByUid(rs, e.from).kind = "Pod")
                 IN IF Len(podEdges) > 0 THEN podEdges ELSE targetEdges
            ELSE targetEdges

\* The expansionState parameter of the source is never read by the function.
simplifyEdges(es, rs, state) ==
    LET targets == insertionOrder([i \in 1..Len(es) |-> es[i].to])
    IN flatten([k \in 1..Len(targets) |->
                   simplifyTarget(SelectSeq(es, LAMBDA e : e.to = targets[k]),
                                  targets[k], rs)])

----------------------------------------------------------------------------
(* lib/attachments: computeAttachments.  Kinds are held in their canonical  *)
(* spelling, so the source's toLowerCase() comparisons are equalities.      *)

\* edges.filter(e => e.from === uid).map(e => allResources.find(...)).filter(Boolean)
targetsOf(uid, allResources, allEdges) ==
    LET found == SelectSeq(allEdges,
                     LAMBDA e : e.from = uid /\ hasUid(allResources, e.to))
    IN [i \in 1..Len(found) |-> findByUid(allResources, found[i].to)]

ofKinds(rs, kinds) == SelectSeq(rs, LAMBDA r : r.kind \in kinds)

findChildPods(controller, allResources, allEdges) ==
    LET direct == ofKinds(targetsOf(controller.uid, allResources, allEdges), {"Pod"})
        replicaSets ==
            ofKinds(targetsOf(controller.uid, allResources, allEdges), {"ReplicaSet"})
        viaReplicaSets ==
            flatten([i \in 1..Len(replicaSets) |->
                ofKinds(targetsOf(replicaSets[i].uid, allResources, allEdges), {"Pod"})])
    IN (IF controller.kind \in {"StatefulSet", "DaemonSet"} THEN direct ELSE <<>>)
       \o (IF controller.kind = "Deployment" THEN viaReplicaSets ELSE <<>>)
       \o (IF controller.kind \in {"ReplicaSet", "Job"} THEN direct ELSE <<>>)

\* One group of getCollapsedPodReferences: the targets of the given kind of the
\* pods' outgoing edges, once each, in Set insertion order.
collapsedPodReferences(pods, kind, allResources, allEdges) ==
    LET refs == flatten([i \in 1..Len(pods) |->
                    ofKinds(targetsOf(pods[i].uid, allResources, allEdges), {kind})])
        uids == insertionOrder([i \in 1..Len(refs) |-> refs[i].uid])
    IN [i \in 1..Len(uids) |-> findByUid(allResources, uids[i])]

noAttachments ==
    [endpointSlices |-> <<>>, replicaSets |-> <<>>, pods |-> <<>>,
     configMaps |-> <<>>, secrets |-> <<>>, serviceAccounts |-> <<>>,
     pvcs |-> <<>>, pvs |-> <<>>, storageClasses |-> <<>>]

\* An absent key of ResourceAttachments is the empty list here: the source
\* never stores an empty list under a key.
computeAttachments(resource, allResources, allEdges) ==
    LET targets == targetsOf(resource.uid, allResources, allEdges)
        childPods == findChildPods(resource, allResources, allEdges)
        collapsed(kind) == collapsedPodReferences(childPods, kind, allResources, allEdges)
    IN CASE resource.kind = "Service" ->
              [noAttachments EXCEPT !.endpointSlices = ofKinds(targets, {"EndpointSlice"})]
         [] resource.kind \in {"Deployment", "StatefulSet", "DaemonSet", "CronJob"} ->
              [noAttachments EXCEPT
                  !.replicaSets = ofKinds(targets, {"ReplicaSet"}),
                  !.pods = ofKinds(targets, {"Job", "Pod"}),
                  !.configMaps = collapsed("ConfigMap"),
                  !.secrets = collapsed("Secret"),
                  !.serviceAccounts = collapsed("ServiceAccount"),
                  !.pvcs = collapsed("PersistentVolumeClaim")]
         [] resource.kind \in {"ReplicaSet", "Job"} ->
              [noAttachments EXCEPT !.pods = ofKinds(targets, {"Pod"})]
         [] resource.kind = "Pod" ->
              [noAttachments EXCEPT
                  !.configMaps = ofKinds(targets, {"ConfigMap"}),
                  !.secrets = ofKinds(targets, {"Secret"}),
                  !.serviceAccounts = ofKinds(targets, {"ServiceAccount"}),
                  !.pvcs = ofKinds(targets, {"PersistentVolumeClaim"})]
         [] resource.kind = "PersistentVolumeClaim" ->
              [noAttachments EXCEPT !.pvs = ofKinds(targets, {"PersistentVolume"})]
         [] resource.kind = "PersistentVolume" ->
              [noAttachments EXCEPT !.storageClasses = ofKinds(targets, {"StorageClass"})]
         [] OTHER -> noAttachments

\* GraphNode: the kinds for which the node renders an AttachmentBadge.
badgeKinds(attachments) ==
    {k \in {"ReplicaSet", "Pod", "EndpointSlice", "ConfigMap", "Secret",
            "ServiceAccount", "PersistentVolumeClaim", "PersistentVolume",
            "StorageClass"} :
        Len(CASE k = "ReplicaSet" -> attachments.replicaSets
              [] k = "Pod" -> attachments.pods
              [] k = "EndpointSlice" -> attachments.endpointSlices
              [] k = "ConfigMap" -> attachments.configMaps
              [] k = "Secret" -> attachments.secrets
              [] k = "ServiceAccount" -> attachments.serviceAccounts
              [] k = "PersistentVolumeClaim" -> attachments.pvcs
              [] k = "PersistentVolume" -> attachments.pvs
              [] OTHER -> attachments.storageClasses) > 0}

----------------------------------------------------------------------------
(* Strings the search filter reads, as sequences of characters.             *)

lowerOf(c) ==
    CASE c = "B" -> "b" [] c = "C" -> "c" [] c = "D" -> "d" [] c = "E" -> "e" [] c = "I" -> "i"
      [] c = "M" -> "m" [] c = "P" -> "p" [] c = "R" -> "r" [] c = "S" -> "s"
      [] c = "V" -> "v" [] OTHER -> c

toLowerCase(str) == [i \in 1..Len(str) |-> lowerOf(str[i])]

includes(str, query) ==
    \E i \in 0..(Len(str) - Len(query)) : SubSeq(str, i + 1, i + Len(query)) = query

\* The characters of a Kind enum value.
kindText(kind) ==
    CASE kind = "Deployment" ->
           <<"D", "e", "p", "l", "o", "y", "m", "e", "n", "t">>
      [] kind = "StatefulSet" ->
           <<"S", "t", "a", "t", "e", "f", "u", "l", "S", "e", "t">>
      [] kind = "ReplicaSet" ->
           <<"R", "e", "p", "l", "i", "c", "a", "S", "e", "t">>
      [] kind = "Pod" ->
           <<"P", "o", "d">>
      [] kind = "ConfigMap" ->
           <<"C", "o", "n", "f", "i", "g", "M", "a", "p">>
      [] kind = "Service" ->
           <<"S", "e", "r", "v", "i", "c", "e">>
      [] kind = "Ingress" ->
           <<"I", "n", "g", "r", "e", "s", "s">>
      [] kind = "PersistentVolumeClaim" ->
           <<"P", "e", "r", "s", "i", "s", "t", "e", "n", "t", "V", "o", "l", "u", "m", "e", "C", "l", "a", "i", "m">>
      [] kind = "PersistentVolume" ->
           <<"P", "e", "r", "s", "i", "s", "t", "e", "n", "t", "V", "o", "l", "u", "m", "e">>
      [] OTHER -> <<"?">>

----------------------------------------------------------------------------
(* The snapshots the Astrolabe server returns to getGraph.  Optional        *)
(* numeric fields are <<>> (undefined) or <<n>>; an absent namespace is <<>>  *)
(* and makes the resource cluster-scoped (convertToGraphSnapshot).          *)

resource(uid, kind, name, status) ==
    [uid |-> uid, kind |-> kind, name |-> name, namespace |-> <<"n", "s">>,
     status |-> status, restartCount |-> <<>>, replicasDesired |-> <<>>,
     replicasReady |-> <<>>, isClusterScoped |-> FALSE]

edge(from, to, type) == [from |-> from, to |-> to, type |-> type]

d1 == [resource("d1", "Deployment", <<"w", "e", "b">>, "Ready") EXCEPT
          !.replicasDesired = <<2>>, !.replicasReady = <<2>>]
rs1 == resource("rs1", "ReplicaSet", <<"w", "e", "b", "-", "1">>, "Ready")
p1 == [resource("p1", "Pod", <<"w", "e", "b", "-", "1", "-", "a">>, "Ready") EXCEPT
          !.restartCount = <<0>>]
p2 == [resource("p2", "Pod", <<"w", "e", "b", "-", "1", "-", "b">>, "Error") EXCEPT
          !.restartCount = <<3>>]
cm1 == resource("cm1", "ConfigMap", <<"c", "f", "g">>, "Ready")
ss1 == [resource("ss1", "StatefulSet", <<"d", "b">>, "Pending") EXCEPT
          !.replicasDesired = <<2>>, !.replicasReady = <<1>>]
svc1 == resource("svc1", "Service", <<"d", "b">>, "Ready")
ing1 == resource("ing1", "Ingress", <<"D", "B">>, "Unknown")
pvc1 == resource("pvc1", "PersistentVolumeClaim", <<"d", "a", "t", "a">>, "Ready")
pv1 == [resource("pv1", "PersistentVolume", <<"p", "v">>, "Ready") EXCEPT
          !.namespace = <<>>, !.isClusterScoped = TRUE]

\* Scenario A: d1 owns rs1 owns p1, p1 uses cm1.
snapshotA ==
    [nodes |-> <<d1, rs1, p1, cm1>>,
     edges |-> <<edge("d1", "rs1", "owner"), edge("rs1", "p1", "owner"),
                 edge("p1", "cm1", "uses")>>]

\* Scenario B: p1 and p2 owned through rs1 by d1, all four using cm1.
snapshotB ==
    [nodes |-> <<d1, rs1, p1, p2, cm1>>,
     edges |-> <<edge("d1", "rs1", "owner"), edge("rs1", "p1", "owner"),
                 edge("rs1", "p2", "owner"), edge("p1", "cm1", "uses"),
                 edge("p2", "cm1", "uses"), edge("rs1", "cm1", "uses"),
                 edge("d1", "cm1", "uses")>>]

\* Scenario C: a storage stack, a shared claim, and edges naming the absent
\* uid "ghost".
snapshotC ==
    [nodes |-> <<ing1, svc1, ss1, p1, p2, pvc1, pv1>>,
     edges |-> <<edge("ing1", "svc1", "backs"), edge("svc1", "ghost", "selects"),
                 edge("ss1", "p1", "owner"), edge("ss1", "p2", "owner"),
                 edge("ss1", "pvc1", "uses"), edge("p1", "pvc1", "mounts"),
                 edge("p2", "pvc1", "mounts"), edge("p1", "pvc1", "mounts"),
                 edge("pvc1", "pv1", "ref"), edge("ghost", "pv1", "ref")>>]

\* Scenario C with exactly one raw edge naming "ghost"; both nodes are of
\* always-visible kinds.
snapshotOneGhost ==
    [nodes |-> <<ing1, svc1>>,
     edges |-> <<edge("ing1", "svc1", "backs"), edge("svc1", "ghost", "selects")>>]

job1 == resource("job1", "Job", <<"j", "o", "b">>, "Ready")
cj1 == resource("cj1", "CronJob", <<"c", "r", "o", "n">>, "Ready")

\* A CronJob that owns a Job that owns a Pod.
snapshotCron ==
    [nodes |-> <<cj1, job1, p2>>,
     edges |-> <<edge("cj1", "job1", "owner"), edge("job1", "p2", "owner")>>]

snapshots == {snapshotA, snapshotB, snapshotC, snapshotOneGhost}

----------------------------------------------------------------------------
(* pages/Explorer: the derived state, as functions of the React state.      *)

defaultFilters ==
    [statusFilter |-> "all", kindFilter |-> "all", searchQuery |-> <<>>,
     showProblemsOnly |-> FALSE, showClusterScoped |-> FALSE]

activeFilters(fs) == Cardinality({key \in DOMAIN fs : fs[key] # defaultFilters[key]})

isProblem(r) ==
    \/ r.status = "Error"
    \/ r.status = "Pending"
    \/ (Len(r.restartCount) > 0 /\ r.restartCount[1] > 0)
    \/ (/\ Len(r.replicasDesired) > 0
        /\ Len(r.replicasReady) > 0
        /\ r.replicasReady[1] < r.replicasDesired[1])

matchesSearch(r, searchQuery) ==
    LET query == toLowerCase(searchQuery)
    IN \/ includes(toLowerCase(r.name), query)
       \/ includes(toLowerCase(kindText(r.kind)), query)
       \/ (Len(r.namespace) > 0 /\ includes(toLowerCase(r.namespace), query))

passesFilters(r, fs, scope) ==
    /\ (fs.statusFilter # "all" => r.status = fs.statusFilter)
    /\ (fs.kindFilter # "all" => r.kind = fs.kindFilter)
    /\ (Len(fs.searchQuery) > 0 => matchesSearch(r, fs.searchQuery))
    /\ (fs.showProblemsOnly => isProblem(r))
    /\ ((~fs.showClusterScoped /\ scope # "cluster") => ~r.isClusterScoped)

filteredResourcesOf(rs, fs, scope) ==
    SelectSeq(rs, LAMBDA r : passesFilters(r, fs, scope))

visibleResourcesOf(rs, es, fs, scope, state) ==
    filterVisibleResources(filteredResourcesOf(rs, fs, scope), rs, es, state)

\* A variant that forgets to check the source of an edge.
visibleEdgesTargetOnly(es, visible) ==
    SelectSeq(es, LAMBDA e : e.to \in uidsOf(visible))

visibleEdgesOf(es, visible) ==
    SelectSeq(es, LAMBDA e : e.from \in uidsOf(visible) /\ e.to \in uidsOf(visible))

simplifiedEdgesOf(rs, es, fs, scope, state) ==
    simplifyEdges(visibleEdgesOf(es, visibleResourcesOf(rs, es, fs, scope, state)),
                  rs, state)

\* GraphCanvas.initialNodes: one node per resource, its id the resource's uid.
initialNodesOf(canvasResources) ==
    [i \in 1..Len(canvasResources) |-> canvasResources[i].uid]

\* components/GraphCanvas: the edges that pass the validation of initialEdges.
initialEdgesOf(k8sEdges, canvasResources) ==
    SelectSeq(k8sEdges,
        LAMBDA e : e.from \in uidsOf(canvasResources) /\ e.to \in uidsOf(canvasResources))

filteredResources == filteredResourcesOf(resources, filters, viewScope)
visibleResources == visibleResourcesOf(resources, edges, filters, viewScope, expansionState)
visibleEdges == visibleEdgesOf(edges, visibleResources)
simplifiedEdges == simplifiedEdgesOf(resources, edges, filters, viewScope, expansionState)
initialNodes == initialNodesOf(visibleResources)
initialEdges == initialEdgesOf(simplifiedEdges, visibleResources)
\* The overlay of GraphCanvas: "Input: k8sEdges.length | Valid: validEdgeCount".
overlayInput == Len(simplifiedEdges)
validEdgeCount == Len(initialEdgesOf(simplifiedEdges, visibleResources))
attachmentsOf(uid) == computeAttachments(findByUid(resources, uid), resources, edges)

\* The ExpansionState after handleToggleAttachment(resourceUid, type).
\* A variant that stores the updated set even when it is empty.
toggledKeepingEmpty(prev, resourceUid, type) ==
    LET current == IF resourceUid \in DOMAIN prev THEN prev[resourceUid] ELSE {}
        updated == IF type \in current THEN current \ {type} ELSE current \cup {type}
    IN [u \in DOMAIN prev \cup {resourceUid} |->
           IF u = resourceUid THEN updated ELSE prev[u]]

toggled(prev, resourceUid, type) ==
    LET current == IF resourceUid \in DOMAIN prev THEN prev[resourceUid] ELSE {}
        updated == IF type \in current THEN current \ {type} ELSE current \cup {type}
    IN IF updated = {}
       THEN [u \in DOMAIN prev \ {resourceUid} |-> prev[u]]
       ELSE [u \in DOMAIN prev \cup {resourceUid} |->
                IF u = resourceUid THEN updated ELSE prev[u]]

expandedCount(state) ==
    Cardinality({pair \in UNION {{<<u, k>> : k \in state[u]} : u \in DOMAIN state} : TRUE})

emptyExpansion == [u \in {} |-> {}]

----------------------------------------------------------------------------
(* Bounds of the model.                                                     *)

\* At most this many (resource, kind) pairs are expanded at once.
MaxExpanded == 3

\* Direct calls of simplifyEdges take at most this many edges.
MaxEdges == 4

\* Direct calls of findOwner see at most this many incoming edges.
MaxCandidates == 3

\* At most this many of the five filters differ from their defaults at once.
MaxActiveFilters == 1

----------------------------------------------------------------------------
(* The Explorer page as a state machine.                                    *)

idleCall == argResources = <<>> /\ argEdges = <<>> /\ returned = <<>> /\ runs = <<>>
idleCanvas ==
    /\ issued = 0 /\ latestInput = [nodes |-> <<>>, edges |-> <<>>]
    /\ pending = {} /\ nodes = {} /\ canvasEdges = <<>>
    /\ committedBy = 0 /\ staleCommit = FALSE
idleLayout ==
    /\ layoutNodes = <<>> /\ layoutEdges = <<>> /\ laid = <<>>
    /\ layoutPc = "idle" /\ layoutPath = "none"
    /\ layoutResult = [nodes |-> <<>>, edges |-> <<>>]

Init ==
    /\ resources = <<>>
    /\ edges = <<>>
    /\ viewScope = "cluster"
    /\ filters = defaultFilters
    /\ expansionState = emptyExpansion
    /\ idleCall /\ idleCanvas /\ idleLayout

\* loadData after its await: setResources(graph.nodes); setEdges(graph.edges).
loadData(graph) ==
    /\ resources' = graph.nodes
    /\ edges' = graph.edges
    /\ UNCHANGED <<viewScope, filters, expansionState>>

\* FilterBar.handleFilterChange: onFiltersChange({...filters, [key]: value}).
onFiltersChange(key, value) ==
    /\ activeFilters([filters EXCEPT ![key] = value]) <= MaxActiveFilters
    /\ filters' = [filters EXCEPT ![key] = value]
    /\ UNCHANGED <<resources, edges, viewScope, expansionState>>

onViewScopeChange(scope) ==
    /\ viewScope' = scope
    /\ UNCHANGED <<resources, edges, filters, expansionState>>

\* The handler GraphNode calls on a click on an AttachmentBadge; Next draws
\* its arguments from the badges of the rendered nodes.
handleToggleAttachment(resourceUid, type) ==
    /\ (isExpanded(expansionState, resourceUid, type)
            \/ expandedCount(expansionState) < MaxExpanded)
    /\ expansionState' = toggled(expansionState, resourceUid, type)
    /\ UNCHANGED <<resources, edges, viewScope, filters>>

filterValues ==
    [statusFilter |-> {"all", "Error"},
     kindFilter |-> {"all", "Deployment"},
     searchQuery |-> {<<>>, <<"D", "B">>},
     showProblemsOnly |-> BOOLEAN,
     showClusterScoped |-> BOOLEAN]


Next ==
    \/ /\ \E graph \in snapshots : loadData(graph)
       /\ UNCHANGED <<callVars, canvasVars, layoutVars>>
    \/ /\ \E key \in DOMAIN filterValues : \E value \in filterValues[key] :
              onFiltersChange(key, value)
       /\ UNCHANGED <<callVars, canvasVars, layoutVars>>
    \/ /\ \E scope \in {"cluster", "namespace"} : onViewScopeChange(scope)
       /\ UNCHANGED <<callVars, canvasVars, layoutVars>>
    \/ /\ \E uid \in uidsOf(visibleResources) :
              \E type \in badgeKinds(attachmentsOf(uid)) :
                  handleToggleAttachment(uid, type)
       /\ UNCHANGED <<callVars, canvasVars, layoutVars>>

Spec == Init /\ [][Next]_vars

----------------------------------------------------------------------------
(* Claims about the Explorer pipeline (specification Spec).                 *)

visibleUids == uidsOf(visibleResources)

visibleUnder(state) ==
    uidsOf(visibleResourcesOf(resources, edges, filters, viewScope, state))

\* The resources of the full set that are sources of an edge into r.
ownersAnyType(r) ==
    {o \in seqRange(resources) :
        \E i \in 1..Len(edges) : edges[i].to = r.uid /\ edges[i].from = o.uid}

\* The same, counting ownership edges only.
ownersByOwnership(r) ==
    {o \in seqRange(resources) :
        \E i \in 1..Len(edges) :
            edges[i].to = r.uid /\ edges[i].from = o.uid /\ edges[i].type = "owner"}

\* The kinds an entry can usefully name: those of the loaded resources.
kindsPresent == {resources[i].kind : i \in 1..Len(resources)}

\* C2: expansion monotonicity.  From every reachable ExpansionState, adding
\* one (resource id, kind) entry, whatever the id and the kind, removes no
\* resource from the result of filterVisibleResources.
C2_ExpansionMonotone ==
    \A u \in uidsOf(resources) \cup {"ghost"} : \A k \in kindsPresent :
        ~isExpanded(expansionState, u, k) =>
            visibleUids \subseteq visibleUnder(toggled(expansionState, u, k))

\* C2 witness: some entries are expanded and adding one more reveals a node.
C2_Witness ==
    /\ expansionState # emptyExpansion
    /\ \E u \in uidsOf(resources) : \E k \in kindsPresent :
          /\ ~isExpanded(expansionState, u, k)
          /\ visibleUids # visibleUnder(toggled(expansionState, u, k))
          /\ visibleUids \subseteq visibleUnder(toggled(expansionState, u, k))

\* C19: a resource of a kind that is not collapsible is in the visible node
\* set for every ExpansionState and every setting of the filters.
C19_AlwaysVisibleNeverHidden ==
    \A i \in 1..Len(resources) :
        ~isCollapsibleResource(resources[i]) => resources[i].uid \in visibleUids

\* C19 (as amended): a resource of a kind that is not collapsible and that
\* passes the filters is in the visible node set, whatever the ExpansionState.
C19_FilteredAlwaysVisible ==
    \A i \in 1..Len(filteredResources) :
        ~isCollapsibleResource(filteredResources[i]) =>
            filteredResources[i].uid \in visibleUids

\* C19 witness: with entries expanded and a filter set that removes some
\* resource, a Service that another resource has an edge into is visible.
C19_Witness ==
    /\ filters # defaultFilters
    /\ expansionState # emptyExpansion
    /\ \E i \in 1..Len(filteredResources) :
          /\ filteredResources[i].kind = "Service"
          /\ ownersAnyType(filteredResources[i]) # {}
          /\ filteredResources[i].uid \in visibleUids
    /\ Len(filteredResources) < Len(resources)

\* C3 (as amended): a filtered resource of a collapsible kind is kept iff no
\* resource of the full set is the source of an edge into it, or at least one
\* such source (any of them, whatever the edge type) has the resource's kind
\* in its ExpansionState entry.
C3_VisibilityRule ==
    \A i \in 1..Len(filteredResources) :
        LET r == filteredResources[i]
        IN isCollapsibleResource(r) =>
              (r.uid \in visibleUids <=>
                  \/ ownersAnyType(r) = {}
                  \/ \E o \in ownersAnyType(r) : isExpanded(expansionState, o.uid, r.kind))

\* C3 witness: a resource is visible through an owner that is not the priority
\* winner, the winner not having expanded the kind, and its incoming edges are
\* not ownership edges.
C3_Witness ==
    \E i \in 1..Len(filteredResources) :
        LET r == filteredResources[i]
            winner == findOwner(r, resources, edges)
        IN /\ isCollapsibleResource(r)
           /\ r.uid \in visibleUids
           /\ Cardinality(ownersAnyType(r)) > 1
           /\ ownersByOwnership(r) = {}
           /\ ~isExpanded(expansionState, winner[1].uid, r.kind)

\* C3 as stated: the owners are the sources of the incoming edges of the
\* ownership type only.
C3_OwnsEdgesOnly ==
    \A i \in 1..Len(filteredResources) :
        LET r == filteredResources[i]
        IN isCollapsibleResource(r) =>
              (r.uid \in visibleUids <=>
                  \/ ownersByOwnership(r) = {}
                  \/ \E o \in ownersByOwnership(r) :
                        isExpanded(expansionState, o.uid, r.kind))

scenarioA ==
    /\ resources = snapshotA.nodes
    /\ edges = snapshotA.edges
    /\ filters = defaultFilters

exactlyVisible(uids) ==
    visibleUids = uids /\ Len(visibleResources) = Cardinality(uids)

\* C4: Scenario A.  With no filter active the visible set is {d1} under the
\* empty ExpansionState, {d1, rs1} once ReplicaSet is toggled on d1, and
\* {d1, rs1, p1} once Pod is then toggled on rs1.
C4_ScenarioA ==
    scenarioA =>
        /\ expansionState = emptyExpansion => exactlyVisible({"d1"})
        /\ expansionState = [u \in {"d1"} |-> {"ReplicaSet"}]
              => exactlyVisible({"d1", "rs1"})
        /\ expansionState = [u \in {"d1", "rs1"} |->
                                IF u = "d1" THEN {"ReplicaSet"} ELSE {"Pod"}]
              => exactlyVisible({"d1", "rs1", "p1"})

\* C4 witness: the end of the toggle sequence.
C4_Witness ==
    /\ scenarioA
    /\ expansionState = [u \in {"d1", "rs1"} |->
                            IF u = "d1" THEN {"ReplicaSet"} ELSE {"Pod"}]
    /\ exactlyVisible({"d1", "rs1", "p1"})

\* The raw input edges with an endpoint that is no uid of the loaded nodes.
danglingEdges ==
    {i \in 1..Len(edges) :
        edges[i].from \notin uidsOf(resources) \/ edges[i].to \notin uidsOf(resources)}

\* C14: the diagnostic count shown by GraphCanvas (input edges minus valid
\* edges) equals the number of raw input edges dropped for naming an id that
\* is no node; with one raw edge naming "ghost" the count is 1.
C14_DropCountObservable ==
    /\ overlayInput - validEdgeCount = Cardinality(danglingEdges)
    /\ (resources = snapshotOneGhost.nodes /\ edges = snapshotOneGhost.edges)
          => overlayInput - validEdgeCount = 1

endpointsIn(es, uids) ==
    \A i \in 1..Len(es) : es[i].from \in uids /\ es[i].to \in uids

\* C5: every edge Explorer hands to GraphCanvas, and every edge GraphCanvas
\* hands to the layout, has both endpoints among the visible nodes; an edge
\* naming an id outside the resource set reaches neither.
C5_EdgeEndpointsVisible ==
    /\ endpointsIn(simplifiedEdges, visibleUids)
    /\ endpointsIn(initialEdges, visibleUids)
    /\ \A i \in 1..Len(edges) :
          (edges[i].from \notin uidsOf(resources) \/ edges[i].to \notin uidsOf(resources))
              => edges[i] \notin seqRange(initialEdges)

\* C5 witness: the raw edges name an absent id, whose neighbour is visible,
\* and some edges do reach the layout.
C5_Witness ==
    /\ \E i \in 1..Len(edges) :
          /\ edges[i].from \notin uidsOf(resources)
          /\ edges[i].to \in visibleUids
    /\ Len(initialEdges) > 0
    /\ expansionState # emptyExpansion

----------------------------------------------------------------------------
(* Direct calls of the pure functions of lib/attachments, on bounded        *)
(* inputs whose edges have both endpoints in the resource set (the edges     *)
(* Explorer passes are the visibility-filtered ones).                        *)

boundedSeq(S, n) == UNION {[1..k -> S] : k \in 0..n}

ds1 == resource("ds1", "DaemonSet", <<"d", "s">>, "Ready")

\* Scenario B's resources and a claim; the shared reference "cm1" is a
\* ConfigMap, a Secret or a ServiceAccount.
simplifyUniverse(kind) == <<d1, rs1, p1, p2, [cm1 EXCEPT !.kind = kind], pvc1>>

simplifyPool ==
    {edge("d1", "cm1", "uses"), edge("rs1", "cm1", "uses"), edge("p1", "cm1", "uses"),
     edge("p2", "cm1", "uses"), edge("p1", "pvc1", "mounts"),
     edge("p2", "pvc1", "mounts"), edge("d1", "pvc1", "uses")}

\* One resource of every kind of the priority table, two Pods, and an
\* Ingress, which the table does not list; all point at cm1.
ownerUniverse == <<p1, ing1, rs1, job1, svc1, cj1, ds1, ss1, d1, p2, cm1>>

ownerPool ==
    {edge(u, "cm1", "uses") :
        u \in {"p1", "ing1", "rs1", "job1", "svc1", "cj1", "ds1", "ss1", "d1", "p2"}}

InitSimplify ==
    /\ \E kind \in {"ConfigMap", "Secret", "ServiceAccount"} :
          argResources = simplifyUniverse(kind)
    /\ argEdges \in boundedSeq(simplifyPool, MaxEdges)
    /\ returned = <<>> /\ runs = <<>>
    /\ resources = <<>> /\ edges = <<>> /\ viewScope = "cluster"
    /\ filters = defaultFilters /\ expansionState = emptyExpansion
    /\ idleCanvas /\ idleLayout

InitOwner ==
    /\ argResources = ownerUniverse
    /\ argEdges \in boundedSeq(ownerPool, MaxCandidates)
    /\ returned = <<>> /\ runs = <<>>
    /\ resources = <<>> /\ edges = <<>> /\ viewScope = "cluster"
    /\ filters = defaultFilters /\ expansionState = emptyExpansion
    /\ idleCanvas /\ idleLayout

callSimplifyEdges ==
    /\ returned = <<>>
    /\ returned' = <<"simplifyEdges", simplifyEdges(argEdges, argResources, emptyExpansion)>>
    /\ UNCHANGED <<argResources, argEdges, runs, explorerVars, canvasVars, layoutVars>>

callFindOwner ==
    /\ returned = <<>>
    /\ returned' = <<"findOwner", findOwner(cm1, argResources, argEdges)>>
    /\ UNCHANGED <<argResources, argEdges, runs, explorerVars, canvasVars, layoutVars>>

NextSimplify == callSimplifyEdges

NextOwner == callFindOwner \/ callSimplifyEdges

SpecSimplify == InitSimplify /\ [][NextSimplify]_vars

SpecOwner == InitOwner /\ [][NextOwner]_vars

----------------------------------------------------------------------------
(* Claims about direct calls (specifications SpecSimplify and SpecOwner).   *)

\* The owner-priority order as the specification states it.
statedOrder ==
    <<"Deployment", "StatefulSet", "DaemonSet", "CronJob",
      "Service", "Job", "ReplicaSet", "Pod">>

\* Position of a kind in the stated order; kinds outside it come last.
rankOf(kind) ==
    IF \E k \in 1..Len(statedOrder) : statedOrder[k] = kind
    THEN CHOOSE k \in 1..Len(statedOrder) : statedOrder[k] = kind
    ELSE Len(statedOrder) + 1

kindOfUid(uid) == (CHOOSE r \in seqRange(argResources) : r.uid = uid).kind

edgesTo(es, uid) == SelectSeq(es, LAMBDA e : e.to = uid)

bestRankInto(uid) ==
    CHOOSE n \in 1..(Len(statedOrder) + 1) :
        /\ \E i \in 1..Len(argEdges) :
              argEdges[i].to = uid /\ rankOf(kindOfUid(argEdges[i].from)) = n
        /\ \A i \in 1..Len(argEdges) :
              argEdges[i].to = uid => rankOf(kindOfUid(argEdges[i].from)) >= n

simplifyReturned == Len(returned) = 2 /\ returned[1] = "simplifyEdges"

scenarioBEdges ==
    <<edge("d1", "cm1", "uses"), edge("rs1", "cm1", "uses"),
      edge("p1", "cm1", "uses"), edge("p2", "cm1", "uses")>>

\* C6: fan-in collapse.  For every target of kind ConfigMap, Secret or
\* ServiceAccount with at least one input edge, simplifyEdges returns exactly
\* one edge to it, an input edge whose source has the best rank among the
\* sources of the input edges to that target; on Scenario B's edges only
\* d1 -> cm1 is returned.
C6_FanInCollapse ==
    simplifyReturned =>
        /\ \A i \in 1..Len(argResources) :
              LET t == argResources[i]
                  kept == edgesTo(returned[2], t.uid)
              IN (/\ t.kind \in {"ConfigMap", "Secret", "ServiceAccount"}
                  /\ Len(edgesTo(argEdges, t.uid)) > 0)
                 => /\ Len(kept) = 1
                    /\ kept[1] \in seqRange(argEdges)
                    /\ rankOf(kindOfUid(kept[1].from)) = bestRankInto(t.uid)
        /\ argEdges = scenarioBEdges => returned[2] = <<edge("d1", "cm1", "uses")>>

\* C6 witness: Scenario B's four edges have been simplified.
C6_Witness ==
    /\ simplifyReturned
    /\ argEdges = scenarioBEdges
    /\ kindOfUid("cm1") = "ConfigMap"
    /\ returned[2] = <<edge("d1", "cm1", "uses")>>

\* C7: for every target of kind PersistentVolumeClaim, every input edge whose
\* source is a Pod is returned as often as it was passed in.
C7_ClaimsKeepPodEdges ==
    simplifyReturned =>
        \A i \in 1..Len(argEdges) :
            LET e == argEdges[i]
            IN (kindOfUid(e.to) = "PersistentVolumeClaim" /\ kindOfUid(e.from) = "Pod")
               => countOf(returned[2], e) = countOf(argEdges, e)

\* C7 witness: two Pods and a controller point at one claim, one Pod twice,
\* and the three Pod edges are returned.
C7_Witness ==
    /\ simplifyReturned
    /\ countOf(argEdges, edge("p1", "pvc1", "mounts")) = 2
    /\ countOf(argEdges, edge("p2", "pvc1", "mounts")) = 1
    /\ countOf(argEdges, edge("d1", "pvc1", "uses")) = 1
    /\ Len(edgesTo(returned[2], "pvc1")) = 3

candidateKinds == [i \in 1..Len(argEdges) |-> kindOfUid(argEdges[i].from)]

someRanked == \E i \in 1..Len(argEdges) : rankOf(candidateKinds[i]) <= Len(statedOrder)

\* What the stated rule selects among the sources of argEdges: the first
\* candidate of the earliest kind present, or the first candidate.
statedWinner ==
    IF someRanked
    THEN LET n == bestRankInto("cm1")
             i == CHOOSE i \in 1..Len(argEdges) :
                      /\ rankOf(candidateKinds[i]) = n
                      /\ \A j \in 1..(i - 1) : rankOf(candidateKinds[j]) # n
         IN argEdges[i].from
    ELSE argEdges[1].from

----------------------------------------------------------------------------
(* GraphCanvas: the effect that applies the layout asynchronously.  A node   *)
(* is held as its id; where the layout puts it is not part of this model.    *)

\* At most this many runs of the effect.
MaxRequests == 3

emptySnapshot == [nodes |-> <<>>, edges |-> <<>>]

InitCanvas == Init

\* One run of the effect: applyLayout up to its await, or to its early return.
applyLayout(input) ==
    /\ issued < MaxRequests
    /\ issued' = issued + 1
    /\ latestInput' = input
    /\ IF Len(input.nodes) = 0
       THEN /\ nodes' = {}
            /\ canvasEdges' = <<>>
            /\ committedBy' = issued + 1
            /\ UNCHANGED <<pending, staleCommit>>
       ELSE /\ pending' = pending \cup {[id |-> issued + 1,
                                         nodes |-> input.nodes,
                                         edges |-> input.edges]}
            /\ UNCHANGED <<nodes, canvasEdges, committedBy, staleCommit>>

\* The continuation of applyLayout after its await: setNodes and setEdges,
\* with no test of whether a later run of the effect has started.
layoutResolved(req) ==
    /\ req \in pending
    /\ pending' = pending \ {req}
    /\ nodes' = seqRange(req.nodes)
    /\ canvasEdges' = req.edges
    /\ committedBy' = req.id
    /\ staleCommit' = (staleCommit \/ req.id < issued)
    /\ UNCHANGED <<issued, latestInput>>

\* The render that follows an Explorer update hands GraphCanvas new props,
\* and its effect runs on the initialNodes and initialEdges of that render.
effectInput(rs, es, fs, scope, state) ==
    LET visible == visibleResourcesOf(rs, es, fs, scope, state)
    IN [nodes |-> initialNodesOf(visible),
        edges |-> initialEdgesOf(simplifiedEdgesOf(rs, es, fs, scope, state), visible)]

NextCanvas ==
    \/ /\ \E graph \in {snapshotA, emptySnapshot} :
              /\ loadData(graph)
              /\ applyLayout(effectInput(graph.nodes, graph.edges, filters,
                                         viewScope, expansionState))
       /\ UNCHANGED <<callVars, layoutVars>>
    \/ /\ \E value \in {"all", "Deployment", "Pod"} :
              /\ onFiltersChange("kindFilter", value)
              /\ applyLayout(effectInput(resources, edges,
                                         [filters EXCEPT !.kindFilter = value],
                                         viewScope, expansionState))
       /\ UNCHANGED <<callVars, layoutVars>>
    \/ /\ \E uid \in uidsOf(visibleResources) :
              \E type \in badgeKinds(attachmentsOf(uid)) :
                  /\ handleToggleAttachment(uid, type)
                  /\ applyLayout(effectInput(resources, edges, filters, viewScope,
                                             toggled(expansionState, uid, type)))
       /\ UNCHANGED <<callVars, layoutVars>>
    \/ /\ \E req \in pending : layoutResolved(req)
       /\ UNCHANGED <<explorerVars, callVars, layoutVars>>

SpecCanvas == InitCanvas /\ [][NextCanvas]_vars

\* C1: layout commit is last-request-wins.  No request is committed after a
\* later request was issued, and once no computation is outstanding the
\* committed layout is the one of the latest-issued request.
C1_LastRequestWins ==
    /\ ~staleCommit
    /\ (issued > 0 /\ pending = {}) =>
          /\ committedBy = issued
          /\ nodes = seqRange(latestInput.nodes)
          /\ canvasEdges = latestInput.edges

----------------------------------------------------------------------------
(* lib/layout: getLayoutedElements, with elk.layout as an external call.    *)
(* An optional number is <<>> (undefined) or <<n>>.                          *)

\* Longest node list passed in.
MaxNodes == 6

LANE_GAP == 180
LANE_VGAP == 40
fallbackW == 220
fallbackH == 120
gridColumns == 5
gridColumnStep == 250
gridRowStep == 160

\* Array.prototype.map builds its result once: the sequence as a tuple.
asArray(s) == SubSeq(s, 1, Len(s))

orElse(opt, default) == IF Len(opt) = 0 THEN default ELSE opt[1]

minOf(S) == CHOOSE m \in S : \A n \in S : m <= n
maxOf(S) == CHOOSE m \in S : \A n \in S : m >= n

getLane(kind) ==
    IF kind \in {"Ingress", "Gateway"} THEN 0
    ELSE IF kind \in {"Service", "Deployment", "Job", "CronJob",
                      "StatefulSet", "DaemonSet"} THEN 1
    ELSE IF kind \in {"EndpointSlice", "ReplicaSet"} THEN 2
    ELSE IF kind = "Pod" THEN 3
    ELSE IF kind = "PersistentVolumeClaim" THEN 4
    ELSE IF kind = "PersistentVolume" THEN 5
    ELSE 2

\* uniqSorted.forEach((lane, i) => remap.set(lane, i))
buildLaneRemap(usedLanes) ==
    LET used == seqRange(usedLanes)
    IN [lane \in used |-> Cardinality({l \in used : l < lane})]

\* Sizes are whole numbers here, so Math.ceil is left out.
getNodeSize(n) ==
    [w |-> orElse(n.width, fallbackW), h |-> orElse(n.height, fallbackH)]

\* The children of elkGraph.
elkChildren(ns) ==
    LET remap == buildLaneRemap([i \in 1..Len(ns) |-> getLane(ns[i].kind)])
    IN asArray([i \in 1..Len(ns) |->
           [id |-> ns[i].id,
            width |-> getNodeSize(ns[i]).w,
            height |-> getNodeSize(ns[i]).h,
            layerId |-> <<remap[getLane(ns[i].kind)]>>,
            x |-> <<>>, y |-> <<>>, oldY |-> <<>>]])

\* The first y of a main lane, moved down by every run made before.
startYCarriedOver == 50 + Len(runs) * 250

\* The catch branch with four columns.
gridFallbackFourColumns(ns) ==
    [i \in 1..Len(ns) |->
        [id |-> ns[i].id, kind |-> ns[i].kind,
         position |-> [x |-> ((i - 1) % 4) * gridColumnStep,
                       y |-> ((i - 1) \div 4) * gridRowStep]]]

\* The catch branch: nodes.map((n, i) => ...), i counted from 0.
gridFallback(ns) ==
    [i \in 1..Len(ns) |->
        [id |-> ns[i].id, kind |-> ns[i].kind,
         position |-> [x |-> ((i - 1) % gridColumns) * gridColumnStep,
                       y |-> ((i - 1) \div gridColumns) * gridRowStep]]]

\* for (const c of laid.children ?? []) c._oldY = c.y
rememberOldY(children) ==
    asArray([i \in 1..Len(children) |-> [children[i] EXCEPT !.oldY = children[i].y]])

\* A variant that advances the cursor by the narrowest width of a lane.
snapColumnsByNarrowest(children, fallbackGap) ==
    LET n == Len(children)
        inLane == {i \in 1..n : Len(children[i].layerId) > 0}
        laneOf(i) == children[i].layerId[1]
        laneCount == IF inLane = {} THEN 0 ELSE maxOf({laneOf(i) : i \in inLane}) + 1
        laneMinW(lane) ==
            LET widths == {children[i].width : i \in {j \in inLane : laneOf(j) = lane}}
            IN IF widths = {} THEN 0 ELSE minOf(widths)
        laneX[lane \in 0..(laneCount - 1)] ==
            IF lane = 0 THEN 0
            ELSE laneX[lane - 1] + laneMinW(lane - 1) + fallbackGap
        snapped ==
            asArray([i \in 1..n |->
                IF i \in inLane
                THEN [children[i] EXCEPT !.x = <<laneX[laneOf(i)]>>]
                ELSE children[i]])
        minX == minOf({orElse(snapped[i].x, 0) : i \in 1..n})
    IN IF n > 0 /\ minX # 0
       THEN asArray([i \in 1..n |->
                [snapped[i] EXCEPT !.x = <<orElse(snapped[i].x, 0) - minX>>]])
       ELSE snapped

snapColumnsByLane(children, fallbackGap) ==
    LET n == Len(children)
        inLane == {i \in 1..n : Len(children[i].layerId) > 0}
        laneOf(i) == children[i].layerId[1]
        laneCount == IF inLane = {} THEN 0 ELSE maxOf({laneOf(i) : i \in inLane}) + 1
        laneMaxW(lane) ==
            maxOf({0} \cup {children[i].width : i \in {j \in inLane : laneOf(j) = lane}})
        laneX[lane \in 0..(laneCount - 1)] ==
            IF lane = 0 THEN 0
            ELSE laneX[lane - 1] + laneMaxW(lane - 1) + fallbackGap
        snapped ==
            asArray([i \in 1..n |->
                IF i \in inLane
                THEN [children[i] EXCEPT !.x = <<laneX[laneOf(i)]>>]
                ELSE children[i]])
        minX == minOf({orElse(snapped[i].x, 0) : i \in 1..n})
    IN IF n > 0 /\ minX # 0
       THEN asArray([i \in 1..n |->
                [snapped[i] EXCEPT !.x = <<orElse(snapped[i].x, 0) - minX>>]])
       ELSE snapped

\* A variant whose sweep leaves no gap below a node.
resolveLaneWithoutGap(children, items, vgap) ==
    LET yOf == [i \in items |-> orElse(children[i].y, 0)]
        rank == [i \in items |->
                    Cardinality({j \in items :
                        yOf[j] < yOf[i] \/ (yOf[j] = yOf[i] /\ j <= i)})]
        sorted == [k \in 1..Cardinality(items) |-> CHOOSE i \in items : rank[i] = k]
        top[k \in 1..Cardinality(items)] ==
            IF k = 1 THEN yOf[sorted[1]]
            ELSE LET cursor == top[k - 1] + children[sorted[k - 1]].height
                 IN IF yOf[sorted[k]] >= cursor THEN yOf[sorted[k]] ELSE cursor
        swept == [i \in items |-> top[rank[i]]]
        oldTop == [i \in items |-> orElse(children[i].oldY, swept[i])]
        oldMin == minOf({oldTop[i] : i \in items})
        oldMax == maxOf({oldTop[i] + children[i].height : i \in items})
        newMin == minOf({swept[i] : i \in items})
        newMax == maxOf({swept[i] + children[i].height : i \in items})
        delta == ((oldMin + oldMax) - (newMin + newMax)) \div 2
    IN [i \in items |-> swept[i] + delta]

\* The new y of the children of one lane: stable sort by y, sweep, recentre.
\* The coordinates used here are even, so the halving is exact.
resolveLane(children, items, vgap) ==
    LET yOf == [i \in items |-> orElse(children[i].y, 0)]
        rank == [i \in items |->
                    Cardinality({j \in items :
                        yOf[j] < yOf[i] \/ (yOf[j] = yOf[i] /\ j <= i)})]
        sorted == [k \in 1..Cardinality(items) |-> CHOOSE i \in items : rank[i] = k]
        top[k \in 1..Cardinality(items)] ==
            IF k = 1 THEN yOf[sorted[1]]
            ELSE LET cursor == top[k - 1] + children[sorted[k - 1]].height + vgap
                 IN IF yOf[sorted[k]] >= cursor THEN yOf[sorted[k]] ELSE cursor
        swept == [i \in items |-> top[rank[i]]]
        oldTop == [i \in items |-> orElse(children[i].oldY, swept[i])]
        oldMin == minOf({oldTop[i] : i \in items})
        oldMax == maxOf({oldTop[i] + children[i].height : i \in items})
        newMin == minOf({swept[i] : i \in items})
        newMax == maxOf({swept[i] + children[i].height : i \in items})
        delta == ((oldMin + oldMax) - (newMin + newMax)) \div 2
    IN [i \in items |-> swept[i] + delta]

resolveVerticalCollisionsByLane(children, vgap) ==
    LET n == Len(children)
        inLane == {i \in 1..n : Len(children[i].layerId) > 0}
        lanes == {children[i].layerId[1] : i \in inLane}
        buckets == [lane \in lanes |-> {i \in inLane : children[i].layerId[1] = lane}]
        resolved == [lane \in lanes |-> resolveLane(children, buckets[lane], vgap)]
    IN asArray([i \in 1..n |->
           IF i \in inLane
           THEN [children[i] EXCEPT !.y = <<resolved[children[i].layerId[1]][i]>>]
           ELSE children[i]])

\* Step 4: copy positions back; a node without a child gets (0, 0).
copyPositions(ns, children) ==
    [i \in 1..Len(ns) |->
        LET found == SelectSeq(children, LAMBDA c : c.id = ns[i].id)
        IN [id |-> ns[i].id, kind |-> ns[i].kind,
            position |->
                IF Len(found) = 0 THEN [x |-> 0, y |-> 0]
                ELSE [x |-> orElse(found[1].x, 0), y |-> orElse(found[1].y, 0)]]]

layoutNode(id, kind) == [id |-> id, kind |-> kind, width |-> <<>>, height |-> <<>>]

\* A node React Flow has measured.
measuredNode(id, kind, width, height) ==
    [id |-> id, kind |-> kind, width |-> <<width>>, height |-> <<height>>]

layoutUniverse ==
    <<layoutNode("d1", "Deployment"), layoutNode("p1", "Pod"), layoutNode("p2", "Pod"),
      measuredNode("svc1", "Service", 300, 160), layoutNode("ing1", "Ingress"),
      layoutNode("cm1", "ConfigMap"), layoutNode("pvc1", "PersistentVolumeClaim")>>

flowEdge(source, target) == [id |-> <<source, target, 0>>, source |-> source, target |-> target]

\* What elk.layout may resolve with for the children passed: per child, the
\* child is left out, comes back without coordinates, or comes back at
\* (700, 0) or at (40, 60).
solverOutcomes == {"absent", "bare", "y0", "y60"}

solverChild(child, outcome) ==
    IF outcome = "bare" THEN child
    ELSE IF outcome = "y0" THEN [child EXCEPT !.x = <<700>>, !.y = <<0>>]
    ELSE [child EXCEPT !.x = <<40>>, !.y = <<60>>]

solverOutput(children, choice) ==
    LET kept == SelectSeq([i \in 1..Len(children) |-> i],
                          LAMBDA i : choice[i] # "absent")
    IN asArray([k \in 1..Len(kept) |-> solverChild(children[kept[k]], choice[kept[k]])])

InitLayout ==
    /\ \E n \in 0..MaxNodes :
          /\ n <= Len(layoutUniverse)
          /\ layoutNodes = SubSeq(layoutUniverse, 1, n)
          /\ layoutEdges \in {<<>>, <<flowEdge("d1", "p1")>>}
    /\ laid = <<>>
    /\ layoutPc = "idle" /\ layoutPath = "none"
    /\ layoutResult = [nodes |-> <<>>, edges |-> <<>>]
    /\ resources = <<>> /\ edges = <<>> /\ viewScope = "cluster"
    /\ filters = defaultFilters /\ expansionState = emptyExpansion
    /\ idleCall /\ idleCanvas

\* getLayoutedElements up to its await, or to its return on an empty list.
getLayoutedElements ==
    /\ layoutPc = "idle"
    /\ IF Len(layoutNodes) = 0
       THEN /\ layoutPc' = "returned"
            /\ layoutPath' = "empty"
            /\ layoutResult' = [nodes |-> <<>>, edges |-> layoutEdges]
       ELSE /\ layoutPc' = "solving"
            /\ UNCHANGED <<layoutPath, layoutResult>>
    /\ UNCHANGED <<layoutNodes, layoutEdges, laid, explorerVars, callVars, canvasVars>>

\* elk.layout rejects: the catch branch.
elkRejects ==
    /\ layoutPc = "solving"
    /\ layoutPc' = "returned"
    /\ layoutPath' = "fallback"
    /\ layoutResult' = [nodes |-> gridFallback(layoutNodes), edges |-> layoutEdges]
    /\ UNCHANGED <<layoutNodes, layoutEdges, laid, explorerVars, callVars, canvasVars>>

\* Steps 3 and 4 on the children elk.layout resolved with.
layoutSolved(ns, es, children) ==
    [nodes |-> copyPositions(ns,
                   resolveVerticalCollisionsByLane(
                       snapColumnsByLane(rememberOldY(children), LANE_GAP),
                       LANE_VGAP)),
     edges |-> es]

\* elk.layout resolves with the given children.
elkResolves(children) ==
    /\ laid' = children
    /\ layoutPc' = "returned"
    /\ layoutPath' = "solved"
    /\ layoutResult' = layoutSolved(layoutNodes, layoutEdges, children)
    /\ UNCHANGED <<layoutNodes, layoutEdges, explorerVars, callVars, canvasVars>>

NextLayout ==
    \/ getLayoutedElements
    \/ elkRejects
    \/ /\ layoutPc = "solving"
       /\ \E choice \in [1..Len(layoutNodes) -> solverOutcomes] :
              elkResolves(solverOutput(elkChildren(layoutNodes), choice))

SpecLayout == InitLayout /\ [][NextLayout]_vars

----------------------------------------------------------------------------
(* Claims about getLayoutedElements (specification SpecLayout).             *)

positionsDistinct(ns) ==
    \A i, j \in 1..Len(ns) : i # j => ns[i].position # ns[j].position

\* C9: when the solver throws, getLayoutedElements returns one positioned
\* node per input node, same ids in the same order, node i (from 0) at column
\* i mod 5 and row floor(i / 5) of the grid, all positions pairwise distinct,
\* and returns the edges unchanged.
C9_ThrowGivesGrid ==
    layoutPath = "fallback" =>
        /\ layoutPc = "returned"
        /\ Len(layoutResult.nodes) = Len(layoutNodes)
        /\ \A i \in 1..Len(layoutNodes) :
              /\ layoutResult.nodes[i].id = layoutNodes[i].id
              /\ layoutResult.nodes[i].position.x = ((i - 1) % 5) * 250
              /\ layoutResult.nodes[i].position.y = ((i - 1) \div 5) * 160
        /\ positionsDistinct(layoutResult.nodes)
        /\ layoutResult.edges = layoutEdges

\* C9 witness: the solver threw on six nodes, so the grid has a second row.
C9_Witness ==
    /\ layoutPath = "fallback"
    /\ Len(layoutNodes) = 6
    /\ layoutResult.nodes[6].position = [x |-> 0, y |-> 160]
    /\ layoutEdges # <<>>

\* The solver's output lacks a child for some input node, or a child of it
\* lacks a coordinate.
malformed ==
    \/ \E i \in 1..Len(layoutNodes) :
          \A k \in 1..Len(laid) : laid[k].id # layoutNodes[i].id
    \/ \E k \in 1..Len(laid) : Len(laid[k].x) = 0 \/ Len(laid[k].y) = 0

\* C10: when the solver returns malformed output, the layout is the grid of
\* the fallback, and distinct input nodes never share a position.
C10_MalformedGivesGrid ==
    (layoutPath = "solved" /\ malformed) =>
        /\ layoutResult.nodes = gridFallback(layoutNodes)
        /\ positionsDistinct(layoutResult.nodes)

\* The input nodes the solver returned a child for, and that child.
withChild == {i \in 1..Len(layoutNodes) : \E k \in 1..Len(laid) : laid[k].id = layoutNodes[i].id}

childOf(i) == laid[CHOOSE k \in 1..Len(laid) : laid[k].id = layoutNodes[i].id]

compactLane(i) == childOf(i).layerId[1]

widestIn(lane) == maxOf({childOf(i).width : i \in {j \in withChild : compactLane(j) = lane}})

placedX(i) == layoutResult.nodes[i].position.x

placedY(i) == layoutResult.nodes[i].position.y

\* C11: after column snapping all nodes of one compacted lane have the same
\* x, and for two lanes L1 < L2 in use x(L2) >= x(L1) + the widest node of
\* L1 + the horizontal gap, whatever coordinates the solver produced.
C11_LaneOrdering ==
    layoutPath = "solved" =>
        \A i, j \in withChild :
            /\ compactLane(i) = compactLane(j) => placedX(i) = placedX(j)
            /\ compactLane(i) < compactLane(j) =>
                  /\ placedX(j) >= placedX(i) + widestIn(compactLane(i)) + 180
                  /\ placedX(i) + childOf(i).width <= placedX(j)

\* C11 witness: a lane holding a 220 wide and a 300 wide node, and the next
\* lane placed 300 + 180 to its right.
C11_Witness ==
    /\ layoutPath = "solved"
    /\ Len(layoutNodes) = 4 /\ withChild = 1..4
    /\ placedX(1) = 0 /\ placedX(4) = 0
    /\ placedX(2) = 480 /\ placedX(3) = 480

solverY(i) == orElse(childOf(i).y, 0)

\* C12: after resolveVerticalCollisionsByLane, recentring included, of two
\* distinct nodes of one lane the one later in the order of the solver-given
\* y has its top at or below the bottom of the earlier one plus the vertical
\* gap.
C12_NoVerticalOverlap ==
    layoutPath = "solved" =>
        \A i, j \in withChild :
            (/\ i # j
             /\ compactLane(i) = compactLane(j)
             /\ (solverY(i) < solverY(j) \/ (solverY(i) = solverY(j) /\ i < j)))
            => placedY(j) >= placedY(i) + childOf(i).height + 40

\* C12 witness: two nodes of one lane were given the same y by the solver
\* and the second one was pushed down to exactly the first one's bottom plus
\* the gap.
C12_Witness ==
    /\ layoutPath = "solved"
    /\ \E i, j \in withChild :
          /\ i < j
          /\ compactLane(i) = compactLane(j)
          /\ Len(childOf(i).y) = 1 /\ childOf(i).y = childOf(j).y
          /\ placedY(j) = placedY(i) + childOf(i).height + 40

----------------------------------------------------------------------------
(* lib/laneLayout: getLaneLayoutedElements.  A node carries the kind,       *)
(* namespace and name of its data.resource.                                  *)

NODE_WIDTH == 220
NODE_HEIGHT == 100
LANE_WIDTH == 300
VERTICAL_SPACING == 150
ATTACHMENT_OFFSET == 280
startY == 50

LANES ==
    [INGRESS |-> 1, SERVICE |-> 2, CONTROLLER |-> 3, EPHEMERAL |-> 4,
     POD |-> 5, ATTACHMENT |-> 6, ORPHAN |-> 0]

\* laneLayout's own getLane, on the kind of the resource.
getLaneOfResource(kind) ==
    IF kind \in {"Ingress", "Gateway", "VirtualService"} THEN LANES.INGRESS
    ELSE IF kind = "Service" THEN LANES.SERVICE
    ELSE IF kind \in {"Deployment", "StatefulSet", "DaemonSet", "CronJob"}
    THEN LANES.CONTROLLER
    ELSE IF kind \in {"ReplicaSet", "Job"} THEN LANES.EPHEMERAL
    ELSE IF kind = "Pod" THEN LANES.POD
    ELSE IF kind \in {"ConfigMap", "Secret", "ServiceAccount", "PersistentVolumeClaim",
                      "PersistentVolume", "StorageClass", "HorizontalPodAutoscaler",
                      "PodDisruptionBudget", "NetworkPolicy", "EndpointSlice",
                      "Role", "RoleBinding", "ClusterRole", "ClusterRoleBinding"}
    THEN LANES.ATTACHMENT
    ELSE LANES.ORPHAN

\* The collation order of the characters names are written with: hyphen,
\* digits, letters; a capital sorts with its small letter.
collation ==
    <<"-", "0", "1", "2", "3", "4", "5", "6", "7", "8", "9",
      "a", "b", "c", "d", "e", "f", "g", "h", "i", "j", "k", "l", "m",
      "n", "o", "p", "q", "r", "s", "t", "u", "v", "w", "x", "y", "z">>

collationKeys ==
    [c \in seqRange(collation) |-> CHOOSE k \in 1..Len(collation) : collation[k] = c]

collationKey(c) == collationKeys[lowerOf(c)]

\* String.prototype.localeCompare: -1, 0 or 1.  Strings that differ only in
\* case are ordered small letter first.
localeCompare(a, b) ==
    IF a = b THEN 0
    ELSE LET shared == IF Len(a) < Len(b) THEN Len(a) ELSE Len(b)
             keysA == asArray([i \in 1..shared |-> collationKey(a[i])])
             keysB == asArray([i \in 1..shared |-> collationKey(b[i])])
             differs == {i \in 1..shared : keysA[i] # keysB[i]}
             cased == {i \in 1..shared : a[i] # b[i]}
         IN IF differs # {}
            THEN LET first == minOf(differs)
                 IN IF keysA[first] < keysB[first] THEN -1 ELSE 1
            ELSE IF Len(a) # Len(b) THEN (IF Len(a) < Len(b) THEN -1 ELSE 1)
            ELSE LET first == minOf(cased)
                 IN IF lowerOf(a[first]) = a[first] THEN -1 ELSE 1

\* The comparator of groupByLane: namespace first, then name.
compareNodes(a, b) ==
    LET nsCompare == localeCompare(a.namespace, b.namespace)
    IN IF nsCompare # 0 THEN nsCompare ELSE localeCompare(a.name, b.name)

\* The nodes of one lane, in input order and then sorted (a stable sort).
groupByLane(ns, lane) ==
    LET group == SelectSeq(ns, LAMBDA n : getLaneOfResource(n.kind) = lane)
        rank == asArray([i \in 1..Len(group) |->
                    Cardinality({j \in 1..Len(group) :
                        \/ compareNodes(group[j], group[i]) < 0
                        \/ (compareNodes(group[j], group[i]) = 0 /\ j <= i)})])
    IN asArray([k \in 1..Len(group) |-> group[CHOOSE i \in 1..Len(group) : rank[i] = k]])

positioned(n, x, y) ==
    [id |-> n.id, kind |-> n.kind, position |-> [x |-> x, y |-> y]]

\* The loop over the lanes ORPHAN..POD.
layoutMainLanes(ns) ==
    flatten([l \in 1..(LANES.POD + 1) |->
        LET lane == l - 1
            laneNodes == groupByLane(ns, lane)
            top == IF lane = LANES.ORPHAN THEN 0 ELSE startY
        IN asArray([k \in 1..Len(laneNodes) |->
               positioned(laneNodes[k], lane * LANE_WIDTH,
                          top + (k - 1) * (NODE_HEIGHT + VERTICAL_SPACING))])])

abs(n) == IF n < 0 THEN 0 - n ELSE n

\* hasOverlap testing the rendered boxes, without the margin of 50.
hasOverlapBoxesOnly(placed, x, y) ==
    \E k \in 1..Len(placed) :
        /\ abs(placed[k].position.x - x) < NODE_WIDTH
        /\ abs(placed[k].position.y - y) < NODE_HEIGHT

hasOverlap(placed, x, y) ==
    \E k \in 1..Len(placed) :
        /\ abs(placed[k].position.x - x) < NODE_WIDTH + 50
        /\ abs(placed[k].position.y - y) < NODE_HEIGHT + 50

\* findAnchor accepting a source of any lane of the left-to-right flow.
findAnchorAnyFlowLane(attachmentId, es, placed) ==
    LET incomingEdges == SelectSeq(es, LAMBDA e : e.target = attachmentId)
        anchoring == SelectSeq(incomingEdges,
                        LAMBDA e : \E k \in 1..Len(placed) :
                            /\ placed[k].id = e.source
                            /\ getLaneOfResource(placed[k].kind) \in
                                  {LANES.INGRESS, LANES.SERVICE, LANES.POD,
                                   LANES.CONTROLLER, LANES.EPHEMERAL})
    IN IF Len(anchoring) = 0 THEN <<>>
       ELSE <<placed[CHOOSE k \in 1..Len(placed) : placed[k].id = anchoring[1].source]>>

\* findAnchor: the first incoming edge whose source is an already placed
\* node of the Pod, controller or ephemeral lane; <<>> stands for null.
findAnchor(attachmentId, es, placed) ==
    LET incomingEdges == SelectSeq(es, LAMBDA e : e.target = attachmentId)
        anchoring == SelectSeq(incomingEdges,
                        LAMBDA e : \E k \in 1..Len(placed) :
                            /\ placed[k].id = e.source
                            /\ getLaneOfResource(placed[k].kind) \in
                                  {LANES.POD, LANES.CONTROLLER, LANES.EPHEMERAL})
    IN IF Len(anchoring) = 0 THEN <<>>
       ELSE <<placed[CHOOSE k \in 1..Len(placed) : placed[k].id = anchoring[1].source]>>

\* The y the while loop of an anchored attachment stops at.  A placed node
\* blocks at most three of the steps, so the search range suffices.
shiftDown(placed, x, y) ==
    LET free == {m \in 0..(3 * Len(placed)) :
                    ~hasOverlap(placed, x, y + m * (NODE_HEIGHT + 30))}
    IN y + minOf(free) * (NODE_HEIGHT + 30)

\* The loop over the attachment lane; its state is layoutedNodes,
\* attachmentYOffsets and the ORPHAN entry of laneYPositions.
layoutAttachments(ns, es, main) ==
    LET attachmentNodes == groupByLane(ns, LANES.ATTACHMENT)
        ids == {ns[i].id : i \in 1..Len(ns)}
        orphans == Len(SelectSeq(ns, LAMBDA n : getLaneOfResource(n.kind) = LANES.ORPHAN))
        after[k \in 0..Len(attachmentNodes)] ==
            IF k = 0
            THEN [layoutedNodes |-> main,
                  attachmentYOffsets |-> [id \in ids |-> 0],
                  orphanY |-> orphans * (NODE_HEIGHT + VERTICAL_SPACING)]
            ELSE LET before == after[k - 1]
                     node == attachmentNodes[k]
                     anchor == findAnchor(node.id, es, before.layoutedNodes)
                 IN IF Len(anchor) = 1
                    THEN LET attachmentX ==
                                 getLaneOfResource(anchor[1].kind) * LANE_WIDTH
                                     + ATTACHMENT_OFFSET
                             attachmentY ==
                                 shiftDown(before.layoutedNodes, attachmentX,
                                           anchor[1].position.y
                                               + before.attachmentYOffsets[anchor[1].id])
                         IN [layoutedNodes |->
                                 Append(before.layoutedNodes,
                                        positioned(node, attachmentX, attachmentY)),
                             attachmentYOffsets |->
                                 [before.attachmentYOffsets EXCEPT ![anchor[1].id] =
                                     attachmentY - anchor[1].position.y + NODE_HEIGHT + 30],
                             orphanY |-> before.orphanY]
                    ELSE [layoutedNodes |->
                              Append(before.layoutedNodes,
                                     positioned(node, LANES.ATTACHMENT * LANE_WIDTH,
                                                before.orphanY)),
                          attachmentYOffsets |-> before.attachmentYOffsets,
                          orphanY |-> before.orphanY + NODE_HEIGHT + VERTICAL_SPACING]
    IN after[Len(attachmentNodes)].layoutedNodes

getLaneLayoutedElements(ns, es) ==
    IF Len(ns) = 0 THEN [nodes |-> <<>>, edges |-> <<>>]
    ELSE [nodes |-> layoutAttachments(ns, es, asArray(layoutMainLanes(ns))), edges |-> es]

----------------------------------------------------------------------------
(* The whole pipeline, from the Explorer state to the laid out graph, run    *)
(* more than once.                                                           *)

\* At most this many recorded runs.
MaxRuns == 2

\* GraphCanvas.initialNodes with the data the layouts read.
flowNodesOf(canvasResources) ==
    [i \in 1..Len(canvasResources) |->
        [id |-> canvasResources[i].uid,
         kind |-> canvasResources[i].kind,
         namespace |-> canvasResources[i].namespace,
         name |-> canvasResources[i].name,
         width |-> <<>>, height |-> <<>>]]

\* GraphCanvas.initialEdges after validation: id `${from}-${to}-${idx}`.
flowEdgesOf(validEdges) ==
    [i \in 1..Len(validEdges) |->
        [id |-> <<validEdges[i].from, validEdges[i].to, i - 1>>,
         source |-> validEdges[i].from,
         target |-> validEdges[i].to,
         label |-> validEdges[i].type]]

\* The solver as one fixed function of the children passed: every third
\* child at (40, 60), the others at (700, 0).
solverFunction(children) ==
    solverOutput(children,
                 [i \in 1..Len(children) |-> IF i % 3 = 0 THEN "y60" ELSE "y0"])

\* What the two layouts return for the current props of GraphCanvas.
pipelineOutput(rs, es, fs, scope, state) ==
    LET visible == visibleResourcesOf(rs, es, fs, scope, state)
        ns == asArray(flowNodesOf(visible))
        fes == asArray(flowEdgesOf(
                   initialEdgesOf(simplifiedEdgesOf(rs, es, fs, scope, state), visible)))
    IN [lane |-> getLaneLayoutedElements(ns, fes),
        elk |-> IF Len(ns) = 0 THEN [nodes |-> <<>>, edges |-> fes]
                ELSE layoutSolved(ns, fes, solverFunction(elkChildren(ns)))]

InitTwice == Init

runPipeline ==
    /\ Len(runs) < MaxRuns
    /\ runs' = Append(runs,
                  [input |-> <<resources, edges, filters, viewScope, expansionState>>,
                   output |-> pipelineOutput(resources, edges, filters, viewScope,
                                             expansionState)])
    /\ UNCHANGED <<argResources, argEdges, returned, explorerVars, canvasVars, layoutVars>>

\* The Explorer is followed up to the last recorded run.
NextTwice ==
    \/ /\ Len(runs) < MaxRuns
       /\ loadData(snapshotB)
       /\ UNCHANGED <<callVars, canvasVars, layoutVars>>
    \/ /\ Len(runs) < MaxRuns
       /\ onFiltersChange("kindFilter", "Pod")
       /\ UNCHANGED <<callVars, canvasVars, layoutVars>>
    \/ /\ Len(runs) < MaxRuns
       /\ \E uid \in uidsOf(visibleResources) :
              \E type \in badgeKinds(attachmentsOf(uid)) :
                  handleToggleAttachment(uid, type)
       /\ UNCHANGED <<callVars, canvasVars, layoutVars>>
    \/ runPipeline

SpecTwice == InitTwice /\ [][NextTwice]_vars

----------------------------------------------------------------------------
(* lib/edgeResolver: buildEdges.  A resource carries its reference fields;  *)
(* an absent list is <<>>, an absent or empty string is <<>>, an absent      *)
(* claimRef is <<>> and a present one <<[name, namespace]>>.                 *)

MaxResources == 5

noReferences ==
    [ownerReferences |-> <<>>, volumeName |-> <<>>, claimRef |-> <<>>,
     targetPods |-> <<>>, mountedPVCs |-> <<>>, usedConfigMaps |-> <<>>,
     usedSecrets |-> <<>>, serviceAccountName |-> <<>>]

\* A resource of the indexer with the reference fields refs set.
described(r, refs) == r @@ refs

ownerReference(kind, name) == [kind |-> kind, name |-> name]

\* Array.from(nodeMap.values()): one entry per uid, at the position of its
\* first occurrence and with the value of its last (Map.set).
nodeMapValues(rs) ==
    LET firsts == SelectSeq([i \in 1..Len(rs) |-> i],
                      LAMBDA i : \A j \in 1..(i - 1) : rs[j].uid # rs[i].uid)
        last(u) == CHOOSE i \in 1..Len(rs) :
                      rs[i].uid = u /\ \A j \in (i + 1)..Len(rs) : rs[j].uid # u
    IN asArray([k \in 1..Len(firsts) |-> rs[last(rs[firsts[k]].uid)]])

\* Array.prototype.find, given the elements that satisfy the predicate in
\* order: <<>> (undefined) or the first of them.
find(hits) == IF Len(hits) = 0 THEN <<>> ELSE <<hits[1]>>

\* [Kind.Deployment, Kind.StatefulSet, Kind.ReplicaSet]
scaleTargetKinds == {"Deployment", "StatefulSet", "ReplicaSet"}

\* A variant that emits an edge to the owner's uid as the reference names it
\* even when no resource matches.
edgeToFoundOrNamed(found, from, to, type) == <<edge(from, to, type)>>

\* if (found) edges.push({from, to, type})
edgeToFound(found, from, to, type) ==
    IF Len(found) = 0 THEN <<>> ELSE <<edge(from, to, type)>>

\* The edges pushed while buildEdges visits resource r of resources rs.
edgesFor(r, rs, values) ==
    LET uidOf(found, missing) == IF Len(found) = 0 THEN missing ELSE found[1].uid
        named(kind, name) ==
            find(SelectSeq(values, LAMBDA x : x.kind = kind /\ x.name = name
                                                /\ x.namespace = r.namespace))
        owners ==
            flatten([k \in 1..Len(r.ownerReferences) |->
                LET owner == r.ownerReferences[k]
                    ownerResource == named(owner.kind, owner.name)
                IN edgeToFound(ownerResource, uidOf(ownerResource, "unresolved"),
                               r.uid, "owner")])
        endpoints ==
            IF r.kind = "Service"
            THEN flatten([k \in 1..Len(rs) |->
                    IF /\ rs[k].kind \in {"Endpoints", "EndpointSlice"}
                       /\ rs[k].name = r.name
                       /\ rs[k].namespace = r.namespace
                    THEN <<edge(r.uid, rs[k].uid, "selects")>> ELSE <<>>])
            ELSE <<>>
        targets ==
            IF r.kind \in {"Endpoints", "EndpointSlice"}
            THEN flatten([k \in 1..Len(r.targetPods) |->
                    LET pod == named("Pod", r.targetPods[k])
                    IN edgeToFound(pod, r.uid, uidOf(pod, "unresolved"), "selects")])
            ELSE <<>>
        services ==
            IF r.kind = "Ingress"
            THEN flatten([k \in 1..Len(rs) |->
                    IF rs[k].kind = "Service" /\ rs[k].namespace = r.namespace
                    THEN <<edge(r.uid, rs[k].uid, "backs")>> ELSE <<>>])
            ELSE <<>>
        volume ==
            IF r.kind = "PersistentVolumeClaim" /\ Len(r.volumeName) > 0
            THEN LET pv == find(SelectSeq(values,
                                    LAMBDA x : x.kind = "PersistentVolume"
                                                  /\ x.name = r.volumeName))
                 IN edgeToFound(pv, r.uid, uidOf(pv, "unresolved"), "ref")
            ELSE <<>>
        claim ==
            IF r.kind = "PersistentVolume" /\ Len(r.claimRef) > 0
            THEN LET pvc == find(SelectSeq(values,
                               LAMBDA x : /\ x.kind = "PersistentVolumeClaim"
                                          /\ x.name = r.claimRef[1].name
                                          /\ x.namespace = r.claimRef[1].namespace))
                 IN edgeToFound(pvc, uidOf(pvc, "unresolved"), r.uid, "ref")
            ELSE <<>>
        mounts ==
            IF r.kind = "Pod"
            THEN flatten([k \in 1..Len(r.mountedPVCs) |->
                    LET pvc == named("PersistentVolumeClaim", r.mountedPVCs[k])
                    IN edgeToFound(pvc, r.uid, uidOf(pvc, "unresolved"), "mounts")])
            ELSE <<>>
        uses ==
            IF r.kind \in {"Deployment", "StatefulSet", "DaemonSet"}
            THEN flatten([k \in 1..Len(r.usedConfigMaps) |->
                    LET cm == named("ConfigMap", r.usedConfigMaps[k])
                    IN edgeToFound(cm, r.uid, uidOf(cm, "unresolved"), "uses")])
                 \o flatten([k \in 1..Len(r.usedSecrets) |->
                    LET secret == named("Secret", r.usedSecrets[k])
                    IN edgeToFound(secret, r.uid, uidOf(secret, "unresolved"), "uses")])
                 \o (IF Len(r.serviceAccountName) > 0
                     THEN LET sa == named("ServiceAccount", r.serviceAccountName)
                          IN edgeToFound(sa, r.uid, uidOf(sa, "unresolved"), "uses")
                     ELSE <<>>)
            ELSE <<>>
        scales ==
            IF r.kind = "HorizontalPodAutoscaler"
            THEN flatten([k \in 1..Len(rs) |->
                    IF rs[k].kind \in scaleTargetKinds /\ rs[k].namespace = r.namespace
                    THEN <<edge(r.uid, rs[k].uid, "scales")>> ELSE <<>>])
            ELSE <<>>
    IN owners \o endpoints \o targets \o services \o volume \o claim \o mounts
          \o uses \o scales

buildEdges(rs) ==
    LET values == nodeMapValues(rs)
    IN asArray(flatten([i \in 1..Len(rs) |-> edgesFor(rs[i], rs, values)]))

sec1 == resource("sec1", "Secret", <<"t", "l", "s">>, "Ready")
sa1 == resource("sa1", "ServiceAccount", <<"s", "a">>, "Ready")
ep1 == resource("ep1", "Endpoints", <<"d", "b">>, "Ready")
hpa1 == resource("hpa1", "HorizontalPodAutoscaler", <<"h", "p", "a">>, "Ready")
d2 == [resource("d2", "Deployment", <<"w", "e", "b">>, "Ready") EXCEPT
          !.namespace = <<"o", "t", "h", "e", "r">>]

\* The resources buildEdges is called on: each with the references of its
\* kind, some naming resources that exist nowhere ("gone", "old").
buildUniverse ==
    <<described(d1, [noReferences EXCEPT
                        !.usedConfigMaps = <<cm1.name, <<"o", "l", "d">>>>,
                        !.usedSecrets = <<sec1.name>>,
                        !.serviceAccountName = sa1.name]),
      described(rs1, [noReferences EXCEPT
                        !.ownerReferences = <<ownerReference("Deployment", d1.name)>>]),
      described(p1, [noReferences EXCEPT
                        !.ownerReferences = <<ownerReference("ReplicaSet", rs1.name)>>,
                        !.mountedPVCs = <<pvc1.name>>]),
      described(cm1, noReferences),
      described(sec1, noReferences),
      described(sa1, noReferences),
      described(svc1, noReferences),
      described(ep1, [noReferences EXCEPT
                        !.targetPods = <<p1.name, <<"g", "o", "n", "e">>>>]),
      described(ing1, noReferences),
      described(pvc1, [noReferences EXCEPT !.volumeName = pv1.name]),
      described(pv1, [noReferences EXCEPT
                        !.claimRef = <<[name |-> pvc1.name, namespace |-> pvc1.namespace]>>]),
      described(hpa1, noReferences),
      described(ss1, [noReferences EXCEPT !.usedSecrets = <<sec1.name>>]),
      described(ds1, [noReferences EXCEPT !.serviceAccountName = sa1.name]),
      described(d2, [noReferences EXCEPT !.usedConfigMaps = <<cm1.name>>])>>

\* The elements of s at the positions in S, in order.
subsequence(s, S) == SelectSeq([i \in 1..Len(s) |-> <<i, s[i]>>], LAMBDA p : p[1] \in S)

buildInputs ==
    {asArray([k \in 1..Cardinality(S) |-> subsequence(buildUniverse, S)[k][2]]) :
        S \in {T \in SUBSET (1..Len(buildUniverse)) : Cardinality(T) <= MaxResources}}

InitBuild ==
    /\ argResources \in buildInputs
    /\ argEdges = <<>>
    /\ returned = <<>> /\ runs = <<>>
    /\ resources = <<>> /\ edges = <<>> /\ viewScope = "cluster"
    /\ filters = defaultFilters /\ expansionState = emptyExpansion
    /\ idleCanvas /\ idleLayout

callBuildEdges ==
    /\ returned = <<>>
    /\ returned' = <<"buildEdges", buildEdges(argResources)>>
    /\ UNCHANGED <<argResources, argEdges, runs, explorerVars, canvasVars, layoutVars>>

NextBuild == callBuildEdges

SpecBuild == InitBuild /\ [][NextBuild]_vars

built == returned # <<>> /\ returned[1] = "buildEdges"

\* Whether a resource of this kind, name and namespace is in the input.
resolves(kind, name, namespace) ==
    \E j \in 1..Len(argResources) :
        /\ argResources[j].kind = kind
        /\ argResources[j].name = name
        /\ argResources[j].namespace = namespace

\* How many of the names resolve to a resource of the kind in r's namespace.
resolvedNames(r, kind, names) ==
    Cardinality({k \in 1..Len(names) : resolves(kind, names[k], r.namespace)})

\* How many edges of the type were returned with the given end at uid.
returnedFrom(uid, type) ==
    Cardinality({k \in 1..Len(returned[2]) :
                    returned[2][k].from = uid /\ returned[2][k].type = type})

returnedTo(uid, type) ==
    Cardinality({k \in 1..Len(returned[2]) :
                    returned[2][k].to = uid /\ returned[2][k].type = type})

\* C15: every edge buildEdges returns joins two uids of its input, and each
\* reference field yields one edge per reference that resolves and none for a
\* reference that matches no resource.
C15_EndpointValidity ==
    built =>
        /\ \A k \in 1..Len(returned[2]) :
              /\ returned[2][k].from \in uidsOf(argResources)
              /\ returned[2][k].to \in uidsOf(argResources)
        /\ \A i \in 1..Len(argResources) :
              LET r == argResources[i]
              IN /\ returnedTo(r.uid, "owner") =
                       Cardinality({k \in 1..Len(r.ownerReferences) :
                           resolves(r.ownerReferences[k].kind,
                                    r.ownerReferences[k].name, r.namespace)})
                 /\ r.kind = "Endpoints"
                       => returnedFrom(r.uid, "selects")
                             = resolvedNames(r, "Pod", r.targetPods)
                 /\ r.kind = "Pod"
                       => returnedFrom(r.uid, "mounts")
                             = resolvedNames(r, "PersistentVolumeClaim", r.mountedPVCs)
                 /\ r.kind \in {"Deployment", "StatefulSet", "DaemonSet"}
                       => returnedFrom(r.uid, "uses")
                             = resolvedNames(r, "ConfigMap", r.usedConfigMaps)
                               + resolvedNames(r, "Secret", r.usedSecrets)
                               + resolvedNames(r, "ServiceAccount",
                                     IF Len(r.serviceAccountName) = 0 THEN <<>>
                                     ELSE <<r.serviceAccountName>>)
                 /\ (r.kind = "PersistentVolumeClaim"
                        /\ ~\E j \in 1..Len(argResources) :
                               argResources[j].kind = "PersistentVolume")
                       => returnedFrom(r.uid, "ref") = 0
                 /\ (r.kind = "PersistentVolume"
                        /\ ~\E j \in 1..Len(argResources) :
                               argResources[j].kind = "PersistentVolumeClaim")
                       => returnedTo(r.uid, "ref") = 0

\* C15 witness: a call that returned edges for the references that resolve
\* while an owner reference, a target pod and a config map name resolved to
\* nothing.
C15_Witness ==
    /\ built
    /\ Len(returned[2]) >= 2
    /\ \E i \in 1..Len(argResources) :
          /\ argResources[i].kind = "Deployment"
          /\ resolvedNames(argResources[i], "ConfigMap", argResources[i].usedConfigMaps) = 1
          /\ Len(argResources[i].usedConfigMaps) = 2
    /\ \E i \in 1..Len(argResources) :
          /\ argResources[i].kind = "Endpoints"
          /\ resolvedNames(argResources[i], "Pod", argResources[i].targetPods) = 1
    /\ \E i \in 1..Len(argResources) :
          /\ Len(argResources[i].ownerReferences) = 1
          /\ returnedTo(argResources[i].uid, "owner") = 0

\* C20: the scales edges buildEdges emits from a HorizontalPodAutoscaler go to
\* exactly the Deployments, StatefulSets and DaemonSets of its namespace.
C20_ScalesWorkloadControllers ==
    built =>
        \A i \in 1..Len(argResources) :
            argResources[i].kind = "HorizontalPodAutoscaler" =>
                {returned[2][k].to : k \in {n \in 1..Len(returned[2]) :
                        /\ returned[2][n].from = argResources[i].uid
                        /\ returned[2][n].type = "scales"}}
                  = {argResources[j].uid : j \in {n \in 1..Len(argResources) :
                        /\ argResources[n].kind \in {"Deployment", "StatefulSet", "DaemonSet"}
                        /\ argResources[n].namespace = argResources[i].namespace}}

----------------------------------------------------------------------------
(* Loading a snapshot: IndexerClient.convertToGraphSnapshot with Explorer's  *)
(* loadData, and GraphPage's loadData.  The response's edges are <<>> when    *)
(* the field is absent and <<list>> when it is present.                       *)

MaxLoaded == 2

\* IndexerClient.mapEdgeType: the server's vocabulary to EdgeType.
mapEdgeType(serverType) ==
    CASE serverType \in {"owns", "ownership"} -> "owner"
      [] serverType \in {"uses-configmap", "uses-secret", "uses-sa", "configmap-ref",
                         "secret-ref", "service-account"} -> "uses"
      [] serverType \in {"mounts", "pod-volume"} -> "mounts"
      [] serverType \in {"endpoints", "selects", "service-selector"} -> "selects"
      [] serverType \in {"backs", "routes-to", "routes", "ingress-backend"} -> "backs"
      [] OTHER -> "ref"

\* The nodes of convertToGraphSnapshot: ownerReferences is not copied, and a
\* node without namespace is cluster-scoped.
convertedNodes(dataNodes) ==
    asArray([i \in 1..Len(dataNodes) |->
        [dataNodes[i] EXCEPT !.ownerReferences = <<>>,
                             !.isClusterScoped = (Len(dataNodes[i].namespace) = 0)]])

\* data.edges.map(...): a TypeError when data.edges is undefined.
convertToGraphSnapshot(dataNodes, dataEdges) ==
    IF Len(dataEdges) = 0
    THEN [threw |-> TRUE, nodes |-> <<>>, edges |-> <<>>]
    ELSE [threw |-> FALSE,
          nodes |-> convertedNodes(dataNodes),
          edges |-> asArray([i \in 1..Len(dataEdges[1]) |->
                       edge(dataEdges[1][i].from, dataEdges[1][i].to,
                            mapEdgeType(dataEdges[1][i].type))])]

\* The edge lists a response may carry: none, an empty list, the server's
\* edges of the deployment, and a list naming an absent uid.
responseEdges ==
    {<<>>,
     <<<<>>>>,
     <<<<edge("d1", "rs1", "owns"), edge("d1", "cm1", "uses-configmap")>>>>,
     <<<<edge("d1", "ghost", "owns")>>>>}

InitLoad ==
    /\ argResources \in {rs \in buildInputs : Len(rs) <= MaxLoaded}
    /\ argEdges \in responseEdges
    /\ returned = <<>> /\ runs = <<>>
    /\ resources = <<>> /\ edges = <<>> /\ viewScope = "cluster"
    /\ filters = defaultFilters /\ expansionState = emptyExpansion
    /\ idleCanvas /\ idleLayout

\* Explorer.loadData on the response <<argResources, argEdges>>: the catch
\* branch sets the error and leaves resources and edges as they were.
explorerLoadData ==
    /\ returned = <<>>
    /\ LET graph == convertToGraphSnapshot(argResources, argEdges)
       IN IF graph.threw
          THEN /\ returned' = <<"Explorer", <<"TypeError">>>>
               /\ UNCHANGED <<resources, edges>>
          ELSE /\ returned' = <<"Explorer", <<>>>>
               /\ resources' = graph.nodes
               /\ edges' = graph.edges
    /\ UNCHANGED <<argResources, argEdges, runs, viewScope, filters, expansionState,
                   canvasVars, layoutVars>>

\* GraphPage.loadData: getGraph returns the response as parsed.
graphPageLoadData ==
    /\ returned = <<>>
    /\ returned' = <<"GraphPage", <<>>>>
    /\ resources' = argResources
    /\ edges' = buildEdges(argResources)
    /\ UNCHANGED <<argResources, argEdges, runs, viewScope, filters, expansionState,
                   canvasVars, layoutVars>>

NextLoad == explorerLoadData \/ graphPageLoadData

SpecLoad == InitLoad /\ [][NextLoad]_vars

\* Whether the response carries at least one edge.
suppliesEdges == Len(argEdges) > 0 /\ Len(argEdges[1]) > 0

\* C17: after a load, a snapshot without edges has the edges buildEdges gives
\* for its nodes and the load succeeded; a snapshot with edges has exactly its
\* own edges (in EdgeType vocabulary).
C17_EdgeSourceSelection ==
    (returned # <<>> /\ returned[1] \in {"Explorer", "GraphPage"}) =>
        IF suppliesEdges
        THEN /\ returned[2] = <<>>
             /\ edges = convertToGraphSnapshot(argResources, argEdges).edges
        ELSE /\ returned[2] = <<>>
             /\ edges = buildEdges(resources)
             /\ Len(resources) = Len(argResources)

----------------------------------------------------------------------------
(* The stages called on an empty node list (specification SpecLayout).      *)

\* The edge list of the call as K8sEdges.
layoutEdgesAsK8s ==
    [i \in 1..Len(layoutEdges) |->
        edge(layoutEdges[i].source, layoutEdges[i].target, "owner")]

\* C16: on an empty node list filterVisibleResources, simplifyEdges,
\* getLayoutedElements and getLaneLayoutedElements return no nodes and no
\* edges whatever edge list they are passed, and the solver is not called.
C16_EmptyShortCircuit ==
    (layoutPc = "returned" /\ Len(layoutNodes) = 0) =>
        /\ layoutPath = "empty" /\ laid = <<>>
        /\ filterVisibleResources(<<>>, <<>>, layoutEdgesAsK8s, emptyExpansion) = <<>>
        /\ simplifyEdges(layoutEdgesAsK8s, <<>>, emptyExpansion) = <<>>
        /\ getLaneLayoutedElements(layoutNodes, layoutEdges)
              = [nodes |-> <<>>, edges |-> <<>>]
        /\ layoutResult = [nodes |-> <<>>, edges |-> <<>>]

----------------------------------------------------------------------------
(* computeAttachments called on a controller (specification SpecAttach).    *)

attachUniverse == <<d1, ss1, ds1, cj1, rs1, job1, p1, p2, cm1, sec1, pvc1>>

attachPool ==
    {edge("d1", "rs1", "owner"), edge("rs1", "p1", "owner"),
     edge("cj1", "job1", "owner"), edge("job1", "p2", "owner"),
     edge("ss1", "p1", "owner"), edge("ds1", "p2", "owner"),
     edge("p1", "cm1", "uses"), edge("p2", "cm1", "uses"), edge("p2", "sec1", "uses"),
     edge("p1", "pvc1", "mounts")}

InitAttach ==
    /\ argResources = attachUniverse
    /\ argEdges \in boundedSeq(attachPool, MaxEdges)
    /\ returned = <<>> /\ runs = <<>>
    /\ resources = <<>> /\ edges = <<>> /\ viewScope = "cluster"
    /\ filters = defaultFilters /\ expansionState = emptyExpansion
    /\ idleCanvas /\ idleLayout

callComputeAttachments(controller) ==
    /\ returned = <<>>
    /\ returned' = <<"computeAttachments", controller,
                     computeAttachments(controller, argResources, argEdges)>>
    /\ UNCHANGED <<argResources, argEdges, runs, explorerVars, canvasVars, layoutVars>>

NextAttach == \E controller \in {d1, ss1, ds1, cj1} : callComputeAttachments(controller)

SpecAttach == InitAttach /\ [][NextAttach]_vars

\* Whether the edge list of the call has an edge from one uid to the other.
linked(from, to) == \E i \in 1..Len(argEdges) : argEdges[i].from = from /\ argEdges[i].to = to

\* The Pods a controller owns directly or through one ReplicaSet or Job.
ownedPods(controller) ==
    {p \in {r \in seqRange(argResources) : r.kind = "Pod"} :
        \/ linked(controller.uid, p.uid)
        \/ \E m \in {r \in seqRange(argResources) : r.kind \in {"ReplicaSet", "Job"}} :
              linked(controller.uid, m.uid) /\ linked(m.uid, p.uid)}

\* The uids of the resources of a kind some owned Pod has an edge to.
referencedBy(controller, kind) ==
    {r.uid : r \in {t \in seqRange(argResources) :
                       /\ t.kind = kind
                       /\ \E p \in ownedPods(controller) : linked(p.uid, t.uid)}}

listsExactly(list, uids) == uidsOf(list) = uids /\ Len(list) = Cardinality(uids)

\* C18: computeAttachments of a Deployment, StatefulSet, DaemonSet or CronJob
\* lists once each the ConfigMaps, Secrets, ServiceAccounts and claims that the
\* Pods it owns, directly or through one ReplicaSet or Job, have an edge to.
C18_ControllerClosure ==
    (returned # <<>> /\ returned[1] = "computeAttachments") =>
        /\ listsExactly(returned[3].configMaps, referencedBy(returned[2], "ConfigMap"))
        /\ listsExactly(returned[3].secrets, referencedBy(returned[2], "Secret"))
        /\ listsExactly(returned[3].serviceAccounts,
                        referencedBy(returned[2], "ServiceAccount"))
        /\ listsExactly(returned[3].pvcs,
                        referencedBy(returned[2], "PersistentVolumeClaim"))

----------------------------------------------------------------------------
(* lib/layout getLane called on the kinds of a node list (specification     *)
(* SpecLane).                                                                *)

MaxKinds == 2

\* The kinds of the Kind enum that reach the layout, and one outside it.
laneKinds ==
    {"Ingress", "Gateway", "Service", "Deployment", "StatefulSet", "DaemonSet",
     "CronJob", "ReplicaSet", "Job", "Pod", "PersistentVolumeClaim",
     "PersistentVolume", "ConfigMap", "Secret", "ServiceAccount", "EndpointSlice",
     "HorizontalPodAutoscaler", "StorageClass", "Widget"}

InitLane ==
    /\ argResources \in boundedSeq({resource("n", kind, <<"n">>, "Ready") : kind \in laneKinds},
                                   MaxKinds)
    /\ argEdges = <<>>
    /\ returned = <<>> /\ runs = <<>>
    /\ resources = <<>> /\ edges = <<>> /\ viewScope = "cluster"
    /\ filters = defaultFilters /\ expansionState = emptyExpansion
    /\ idleCanvas /\ idleLayout

\* Step 1 of getLayoutedElements: the original lane of every node.
callGetLane ==
    /\ returned = <<>>
    /\ returned' = <<"getLane",
                     [i \in 1..Len(argResources) |-> getLane(argResources[i].kind)]>>
    /\ UNCHANGED <<argResources, argEdges, runs, explorerVars, canvasVars, layoutVars>>

NextLane == callGetLane

SpecLane == InitLane /\ [][NextLane]_vars

\* The lane table as stated; 6 stands for "the default lane".
statedLane(kind) ==
    CASE kind \in {"Ingress", "Gateway"} -> 0
      [] kind \in {"Service", "Deployment", "StatefulSet", "DaemonSet", "CronJob"} -> 1
      [] kind \in {"ReplicaSet", "Job"} -> 2
      [] kind = "Pod" -> 3
      [] kind = "PersistentVolumeClaim" -> 4
      [] kind = "PersistentVolume" -> 5
      [] OTHER -> 6

\* C21: getLane gives every classified kind the lane of the table, and every
\* other kind one default lane that no classified kind is given.
C21_LaneTable ==
    (returned # <<>> /\ returned[1] = "getLane") =>
        \A i \in 1..Len(argResources) :
            LET kind == argResources[i].kind
            IN IF statedLane(kind) # 6
               THEN returned[2][i] = statedLane(kind)
               ELSE /\ returned[2][i] \notin 0..5
                    /\ \A j \in 1..Len(argResources) :
                          statedLane(argResources[j].kind) = 6
                              => returned[2][j] = returned[2][i]

----------------------------------------------------------------------------
(* lib/laneLayout getLaneLayoutedElements called directly (specification    *)
(* SpecLaneLayout).                                                          *)

MaxLaneEdges == 2

es1 == resource("es1", "EndpointSlice", <<"d", "b", "-", "x">>, "Ready")
w1 == resource("w1", "Widget", <<"w">>, "Ready")

\* Nodes of every lane: Pods, a controller, a Service, an Ingress, three
\* attachments and a resource of a kind laneLayout does not know.
laneUniverse == flowNodesOf(<<p1, p2, d1, svc1, ing1, cm1, sec1, es1, w1>>)

lanePool ==
    {flowEdge("p1", "cm1"), flowEdge("p2", "cm1"), flowEdge("d1", "cm1"),
     flowEdge("p1", "sec1"), flowEdge("svc1", "es1"), flowEdge("ing1", "sec1")}

InitLaneLayout ==
    /\ layoutNodes \in
          {asArray([k \in 1..Cardinality(S) |-> subsequence(laneUniverse, S)[k][2]]) :
              S \in SUBSET (1..Len(laneUniverse))}
    /\ layoutEdges \in boundedSeq(lanePool, MaxLaneEdges)
    /\ laid = <<>>
    /\ layoutPc = "idle" /\ layoutPath = "none"
    /\ layoutResult = [nodes |-> <<>>, edges |-> <<>>]
    /\ resources = <<>> /\ edges = <<>> /\ viewScope = "cluster"
    /\ filters = defaultFilters /\ expansionState = emptyExpansion
    /\ idleCall /\ idleCanvas

callGetLaneLayoutedElements ==
    /\ layoutPc = "idle"
    /\ layoutPc' = "returned"
    /\ layoutPath' = "lane"
    /\ layoutResult' = getLaneLayoutedElements(layoutNodes, layoutEdges)
    /\ UNCHANGED <<layoutNodes, layoutEdges, laid, explorerVars, callVars, canvasVars>>

NextLaneLayout == callGetLaneLayoutedElements

SpecLaneLayout == InitLaneLayout /\ [][NextLaneLayout]_vars

laneLaid == layoutPc = "returned" /\ layoutPath = "lane"

\* The node the layout returned for an input node.
laidNode(id) ==
    layoutResult.nodes[CHOOSE k \in 1..Len(layoutResult.nodes) :
                           layoutResult.nodes[k].id = id]

sideBand == SelectSeq(layoutNodes, LAMBDA n : getLaneOfResource(n.kind) = LANES.ATTACHMENT)

\* The sources of the incoming edges of a side-band node, in the edges'
\* order, that are nodes of the input in one of the given lanes.
sourcesIn(a, lanes) ==
    LET incoming == SelectSeq(layoutEdges, LAMBDA e :
                        /\ e.target = a.id
                        /\ \E k \in 1..Len(layoutNodes) :
                              /\ layoutNodes[k].id = e.source
                              /\ getLaneOfResource(layoutNodes[k].kind) \in lanes)
    IN [k \in 1..Len(incoming) |-> incoming[k].source]

mainFlowLanes == {LANES.INGRESS, LANES.SERVICE, LANES.CONTROLLER, LANES.EPHEMERAL, LANES.POD}
preferredLanes == {LANES.SERVICE, LANES.CONTROLLER, LANES.EPHEMERAL, LANES.POD}
anchorLanes == {LANES.CONTROLLER, LANES.EPHEMERAL, LANES.POD}

\* a sits to the right of the node id at the fixed offset, not above it.
besideAnchor(a, id) ==
    /\ laidNode(a.id).position.x = laidNode(id).position.x + ATTACHMENT_OFFSET
    /\ laidNode(a.id).position.y >= laidNode(id).position.y

inOrphanColumn(a) == laidNode(a.id).position.x = LANES.ATTACHMENT * LANE_WIDTH

\* C22 (as stated): a side-band node with an incoming edge from a positioned
\* node of a main-flow lane is placed beside one of those sources, and beside
\* one of the service, controller, ephemeral or Pod lane when there is one.
C22_AnchorSelection ==
    laneLaid =>
        \A i \in 1..Len(sideBand) :
            LET a == sideBand[i]
                candidates == sourcesIn(a, mainFlowLanes)
                preferred == sourcesIn(a, preferredLanes)
                among == IF Len(preferred) > 0 THEN preferred ELSE candidates
            IN Len(candidates) > 0 =>
                  \E k \in 1..Len(among) : besideAnchor(a, among[k])

\* C22 (amended): a side-band node is placed beside the source of its first
\* incoming edge that comes from a node of the controller, ephemeral or Pod
\* lane; with no such edge, sources of the entry and service lanes
\* notwithstanding, it goes to the orphan column.
C22_AnchorAmongWorkloads ==
    laneLaid =>
        \A i \in 1..Len(sideBand) :
            LET a == sideBand[i]
                workloads == sourcesIn(a, anchorLanes)
            IN IF Len(workloads) > 0
               THEN besideAnchor(a, workloads[1]) /\ ~inOrphanColumn(a)
               ELSE inOrphanColumn(a)

\* Both cases happen in one layout: an attachment beside its workload
\* source, and one with only a Service or Ingress source in the orphan column.
C22_Witness ==
    /\ laneLaid
    /\ \E i, j \in 1..Len(sideBand) :
          /\ Len(sourcesIn(sideBand[i], anchorLanes)) > 0
          /\ besideAnchor(sideBand[i], sourcesIn(sideBand[i], anchorLanes)[1])
          /\ Len(sourcesIn(sideBand[j], anchorLanes)) = 0
          /\ Len(sourcesIn(sideBand[j], mainFlowLanes)) > 0
          /\ inOrphanColumn(sideBand[j])

\* The nodes of the returned layout that belong to the main layout: those of
\* the left-to-right lanes and the attachments placed beside an anchor.
mainLayout ==
    SelectSeq(layoutResult.nodes, LAMBDA n :
        \/ getLaneOfResource(n.kind) \in mainFlowLanes
        \/ /\ getLaneOfResource(n.kind) = LANES.ATTACHMENT
           /\ n.position.x # LANES.ATTACHMENT * LANE_WIDTH)

orphanAttachments ==
    SelectSeq(layoutResult.nodes, LAMBDA n :
        /\ getLaneOfResource(n.kind) = LANES.ATTACHMENT
        /\ n.position.x = LANES.ATTACHMENT * LANE_WIDTH)

\* The rendered boxes of two nodes intersect.
boxesIntersect(n, m) ==
    /\ abs(n.position.x - m.position.x) < NODE_WIDTH
    /\ abs(n.position.y - m.position.y) < NODE_HEIGHT

\* C23: a side-band node without an anchor lies below the main layout: its y
\* is greater than the bottom edge of every main-flow node and of every
\* anchored attachment, so its box meets none of theirs.
C23_OrphansBelowMain ==
    laneLaid =>
        \A i \in 1..Len(orphanAttachments) : \A k \in 1..Len(mainLayout) :
            /\ orphanAttachments[i].position.y > mainLayout[k].position.y + NODE_HEIGHT
            /\ ~boxesIntersect(orphanAttachments[i], mainLayout[k])

\* The placement test of the attachment loop between two positions.
clearOf(n, m) ==
    \/ abs(n.position.x - m.position.x) >= NODE_WIDTH + 50
    \/ abs(n.position.y - m.position.y) >= NODE_HEIGHT + 50

\* The positions in the returned list, which is in placement order, of the
\* attachments placed beside an anchor.
anchoredAt ==
    {k \in 1..Len(layoutResult.nodes) :
        /\ getLaneOfResource(layoutResult.nodes[k].kind) = LANES.ATTACHMENT
        /\ layoutResult.nodes[k].position.x # LANES.ATTACHMENT * LANE_WIDTH}

anchorOf(n) == sourcesIn(n, anchorLanes)[1]

\* C24: the nudge loop of every anchored attachment ends, at a position clear
\* under the placement test of every node placed before it; attachments of
\* one anchor have the same x and strictly increasing y, clear of each other.
C24_CheckAndShift ==
    laneLaid =>
        /\ Len(layoutResult.nodes) = Len(layoutNodes)
        /\ \A k \in anchoredAt :
              /\ \A j \in 1..(k - 1) : clearOf(layoutResult.nodes[k], layoutResult.nodes[j])
              /\ \A j \in anchoredAt :
                    (j < k /\ anchorOf(layoutResult.nodes[j]) = anchorOf(layoutResult.nodes[k])) =>
                        /\ layoutResult.nodes[j].position.x = layoutResult.nodes[k].position.x
                        /\ layoutResult.nodes[j].position.y + NODE_HEIGHT + 50
                              <= layoutResult.nodes[k].position.y

\* Two attachments of one anchor, the second nudged down from its first
\* position (the first one's y + NODE_HEIGHT + 30) to a clear one.
C24_Witness ==
    /\ laneLaid
    /\ \E j, k \in anchoredAt :
          /\ j < k
          /\ anchorOf(layoutResult.nodes[j]) = anchorOf(layoutResult.nodes[k])
          /\ layoutResult.nodes[k].position.y
                = layoutResult.nodes[j].position.y + 2 * (NODE_HEIGHT + 30)

----------------------------------------------------------------------------
(* lib/attachments simplifyEdges over targets of every branch               *)
(* (specification SpecPass).                                                 *)

passUniverse == <<d1, rs1, p1, cm1, pvc1>>

\* Edges to a ReplicaSet, a Pod, a ConfigMap and a claim; "ghost" is the uid
\* of no resource.
passPool ==
    {edge("d1", "rs1", "owns"), edge("rs1", "p1", "owns"), edge("ghost", "p1", "owns"),
     edge("d1", "cm1", "uses"), edge("p1", "cm1", "uses"),
     edge("p1", "pvc1", "mounts"), edge("d1", "pvc1", "uses")}

\* ExpansionState arguments of the calls.
passStates == {emptyExpansion, toggled(emptyExpansion, "d1", "ConfigMap")}

InitPass ==
    /\ argResources = passUniverse
    /\ argEdges \in boundedSeq(passPool, MaxEdges)
    /\ returned = <<>> /\ runs = <<>>
    /\ resources = <<>> /\ edges = <<>> /\ viewScope = "cluster"
    /\ filters = defaultFilters /\ expansionState = emptyExpansion
    /\ idleCanvas /\ idleLayout

\* simplifyEdges called with one ExpansionState, with another, and on its
\* own result.
callSimplifyAgain ==
    /\ returned = <<>>
    /\ \E first, second \in passStates :
          LET once == simplifyEdges(argEdges, argResources, first)
          IN /\ first # second
             /\ returned' = <<"simplifyAgain", first, second, once,
                              simplifyEdges(argEdges, argResources, second),
                              simplifyEdges(once, argResources, second)>>
    /\ UNCHANGED <<argResources, argEdges, runs, explorerVars, canvasVars, layoutVars>>

NextPass == callSimplifyEdges \/ callSimplifyAgain

SpecPass == InitPass /\ [][NextPass]_vars

collapsingKinds == {"ConfigMap", "Secret", "ServiceAccount", "PersistentVolumeClaim"}

\* C25: every input edge whose target is a resource of a kind other than
\* ConfigMap, Secret, ServiceAccount and PersistentVolumeClaim is returned as
\* it is and as often as it was passed in, and no other edge to it is.
C25_PassThrough ==
    simplifyReturned =>
        \A i \in 1..Len(argResources) :
            argResources[i].kind \notin collapsingKinds =>
                edgesTo(returned[2], argResources[i].uid)
                    = edgesTo(argEdges, argResources[i].uid)

\* C25 witness: a Pod is the target of three edges, one of them twice and
\* one from no known resource, next to a ConfigMap whose fan-in collapses.
C25_Witness ==
    /\ simplifyReturned
    /\ countOf(argEdges, edge("rs1", "p1", "owns")) = 2
    /\ countOf(argEdges, edge("ghost", "p1", "owns")) = 1
    /\ countOf(argEdges, edge("p1", "cm1", "uses")) = 1
    /\ Len(edgesTo(returned[2], "p1")) = 3

simplifiedAgain == Len(returned) = 6 /\ returned[1] = "simplifyAgain"

\* C30: every edge simplifyEdges returns is an input edge, returned at most
\* as often as it was passed in; simplifying the result again changes
\* nothing; the ExpansionState argument makes no difference.
C30_RemovesOnlyIdempotent ==
    simplifiedAgain =>
        /\ \A i \in 1..Len(returned[4]) :
              countOf(returned[4], returned[4][i]) <= countOf(argEdges, returned[4][i])
        /\ returned[6] = returned[4]
        /\ returned[5] = returned[4]

\* C30 witness: a fan-in of two is collapsed and a controller edge to a claim
\* is dropped next to a Pod edge, under two different ExpansionStates.
C30_Witness ==
    /\ simplifiedAgain
    /\ returned[2] # returned[3]
    /\ Len(edgesTo(argEdges, "cm1")) = 2 /\ Len(edgesTo(returned[4], "cm1")) = 1
    /\ Len(edgesTo(argEdges, "pvc1")) = 2 /\ Len(edgesTo(returned[4], "pvc1")) = 1
    /\ returned[6] = returned[4]

----------------------------------------------------------------------------
(* The Explorer's graph loading effect with its requests in flight           *)
(* (specification SpecSelect).                                               *)

\* What the indexer returns for a selection.
graphFor(scope) ==
    CASE scope = "cluster" -> snapshotA
      [] scope = "namespace" -> snapshotB
      [] scope = "release" -> snapshotC

InitSelect == Init

\* One run of the effect, on mount or after a change of the selection:
\* loadData up to its await of client.getGraph.  returned holds the outcome
\* of every request issued so far.
loadDataStart(scope) ==
    /\ issued < MaxRequests
    /\ IF issued = 0 THEN scope = viewScope ELSE scope # viewScope
    /\ viewScope' = scope
    /\ issued' = issued + 1
    /\ pending' = pending \cup {[id |-> issued + 1,
                                 nodes |-> graphFor(scope).nodes,
                                 edges |-> graphFor(scope).edges]}
    /\ returned' = Append(returned, "pending")
    /\ UNCHANGED <<resources, edges, filters, expansionState, argResources, argEdges,
                   runs, latestInput, nodes, canvasEdges, committedBy, staleCommit,
                   layoutVars>>

\* The continuation of loadData after its await: setResources and setEdges,
\* with no test of whether the selection has changed since.
getGraphResolved(req) ==
    /\ req \in pending
    /\ pending' = pending \ {req}
    /\ resources' = req.nodes
    /\ edges' = req.edges
    /\ committedBy' = req.id
    /\ staleCommit' = (staleCommit \/ req.id < issued)
    /\ returned' = [returned EXCEPT ![req.id] = "resolved"]
    /\ UNCHANGED <<viewScope, filters, expansionState, argResources, argEdges, runs,
                   issued, latestInput, nodes, canvasEdges, layoutVars>>

\* The catch branch: the request failed, the stored data stay as they are.
getGraphRejected(req) ==
    /\ req \in pending
    /\ pending' = pending \ {req}
    /\ returned' = [returned EXCEPT ![req.id] = "rejected"]
    /\ UNCHANGED <<explorerVars, argResources, argEdges, runs, issued, latestInput,
                   nodes, canvasEdges, committedBy, staleCommit, layoutVars>>

NextSelect ==
    \/ \E scope \in {"cluster", "namespace", "release"} : loadDataStart(scope)
    \/ \E req \in pending : getGraphResolved(req)
    \/ \E req \in pending : getGraphRejected(req)

SpecSelect == InitSelect /\ [][NextSelect]_vars

----------------------------------------------------------------------------
(* The Explorer with badge clicks only, on the scenarios and on a snapshot   *)
(* with a CronJob (specification SpecBadges).                                *)

badgeSnapshots == {snapshotA, snapshotB, snapshotC, snapshotCron}

NextBadges ==
    \/ /\ \E graph \in badgeSnapshots : loadData(graph)
       /\ UNCHANGED <<callVars, canvasVars, layoutVars>>
    \/ /\ \E uid \in uidsOf(visibleResources) :
              \E type \in badgeKinds(attachmentsOf(uid)) :
                  handleToggleAttachment(uid, type)
       /\ UNCHANGED <<callVars, canvasVars, layoutVars>>

SpecBadges == Init /\ [][NextBadges]_vars


\* The kinds a resource has expanded; a resource without entry has none.
entryOf(state, uid) == IF uid \in DOMAIN state THEN state[uid] ELSE {}

ownedCollapsible ==
    SelectSeq(visibleResources,
        LAMBDA r : isCollapsibleResource(r) /\ ownersAnyType(r) # {})

\* C27 (as stated): every visible resource of a collapsible kind that has an
\* owner has an owner that is itself visible and has the resource's kind in
\* its ExpansionState entry.
C27_HierarchicalCollapse ==
    \A i \in 1..Len(ownedCollapsible) :
        \E o \in ownersAnyType(ownedCollapsible[i]) :
            /\ o.uid \in visibleUids
            /\ ownedCollapsible[i].kind \in entryOf(expansionState, o.uid)

\* C27 (amended): every visible resource of a collapsible kind that has an
\* owner has an owner with the resource's kind in its ExpansionState entry,
\* whether or not that owner is visible.
C27_ExpandingOwner ==
    \A i \in 1..Len(ownedCollapsible) :
        \E o \in ownersAnyType(ownedCollapsible[i]) :
            ownedCollapsible[i].kind \in entryOf(expansionState, o.uid)

\* C27 witness: with no filter set, a resource is visible whose every owner
\* that expands its kind is hidden.
C27_Witness ==
    /\ filters = defaultFilters
    /\ \E i \in 1..Len(ownedCollapsible) :
          \A o \in ownersAnyType(ownedCollapsible[i]) :
              ownedCollapsible[i].kind \in entryOf(expansionState, o.uid)
                  => o.uid \notin visibleUids

\* The list GraphNode counts on the badge of a kind.
badgeGroup(attachments, k) ==
    CASE k = "ReplicaSet" -> attachments.replicaSets
      [] k = "Pod" -> attachments.pods
      [] k = "EndpointSlice" -> attachments.endpointSlices
      [] k = "ConfigMap" -> attachments.configMaps
      [] k = "Secret" -> attachments.secrets
      [] k = "ServiceAccount" -> attachments.serviceAccounts
      [] k = "PersistentVolumeClaim" -> attachments.pvcs
      [] k = "PersistentVolume" -> attachments.pvs
      [] OTHER -> attachments.storageClasses

\* C28: for every rendered resource and every badge it shows, if the
\* resource's entry contains the badge's kind, every resource the badge
\* lists that passes the filters is visible.
C28_BadgesReveal ==
    \A i \in 1..Len(visibleResources) :
        LET r == visibleResources[i]
            attachments == attachmentsOf(r.uid)
        IN \A k \in badgeKinds(attachments) :
              k \in entryOf(expansionState, r.uid) =>
                  \A listed \in seqRange(badgeGroup(attachments, k)) :
                      listed.uid \in uidsOf(filteredResources) =>
                          listed.uid \in visibleUids

\* C29: toggling a kind on a resource twice restores the ExpansionState; one
\* toggle flips that kind in that resource's entry and changes nothing else;
\* no entry is an empty set.
C29_ToggleInvolution ==
    /\ \A u \in DOMAIN expansionState : expansionState[u] # {}
    /\ \A u \in uidsOf(resources) \cup {"ghost"} : \A k \in kindsPresent :
          LET once == toggled(expansionState, u, k)
          IN /\ toggled(once, u, k) = expansionState
             /\ (k \in entryOf(once, u)) # (k \in entryOf(expansionState, u))
             /\ entryOf(once, u) \ {k} = entryOf(expansionState, u) \ {k}
             /\ \A v \in (DOMAIN once \cup DOMAIN expansionState) \ {u} :
                   entryOf(once, v) = entryOf(expansionState, v)
             /\ \A v \in DOMAIN once : once[v] # {}

\* C29 witness: two resources have entries, one of a single kind, so that
\* toggling that kind deletes the entry and toggling it again restores it.
C29_Witness ==
    \E u, v \in DOMAIN expansionState :
        /\ u # v
        /\ Cardinality(expansionState[u]) = 1
        /\ \E k \in expansionState[u] :
              /\ u \notin DOMAIN toggled(expansionState, u, k)
              /\ toggled(toggled(expansionState, u, k), u, k) = expansionState

====
